---------------------------- MODULE Spec2Model ----------------------------
(***************************************************************************)
(* A model of gml_fmt's scanner (src/src/lexer/scanner.rs), its token      *)
(* model (src/src/lex_token.rs) and its parser (src/src/parser.rs).        *)
(*                                                                         *)
(* The scanner is a state machine over one input string: one action per    *)
(* arm of the `match c` in Scanner::lex_input, each action being one       *)
(* iteration of the outer `while let Some((i, c)) = iter.next()` loop,     *)
(* inner loops included.  A character is a TLA+ string; the input is a     *)
(* sequence of characters, and a character's UTF-8 width is kept, since    *)
(* the code indexes the input's bytes with character counts.               *)
(***************************************************************************)
EXTENDS Integers, Sequences, FiniteSets, TLC

(***************************************************************************)
(* Bounds of the model.                                                    *)
(***************************************************************************)
MaxLen == 3

(* A character of two UTF-8 bytes (U+00E9); every other character of the   *)
(* alphabet is ASCII.                                                      *)
EAcute == "U+00E9"

(* The characters the inputs are drawn from: at least one per arm of the   *)
(* match in lex_input.                                                     *)
Alphabet ==
    { "(", ";", "!", "=", "<", ">", "\"", ".", "0", "1", "x", "a", "$", "/",
      " ", "\t", "\n", "\r", "_", "#", EAcute }

VARIABLES
    input,          \* Scanner.input, a sequence of characters
    iter,           \* how many characters `iter` has yielded
    tokens,         \* the caller's Vec<Token>
    line_number,    \* Scanner.line_number
    column_number,  \* Scanner.column_number
    result,         \* "scanning", "Ok" (lex_input returned Ok), "panic"
    p_tokens,       \* the token types of the Vec<Token> the Parser was built on
    p_iter,         \* Parser.iter: the index of the token peek() shows
    ast,            \* Parser.ast
    success,        \* Parser.success: <<>> is None, a message is Some
    allow_unidentified, \* Parser.allow_unidentified
    do_not_pair,    \* Parser.do_not_pair
    stack,          \* the calls in progress below build_ast, innermost last
    ret,            \* the value the last finished call returned
    p_state         \* "idle", "build_ast" (at the head of build_ast's loop),
                    \* "statement" (in its call of statement()), "returned", "hung"

scanner_vars == <<input, iter, tokens, line_number, column_number, result>>

parser_vars ==
    <<p_tokens, p_iter, ast, success, allow_unidentified, do_not_pair, stack, ret,
      p_state>>

vars == <<scanner_vars, parser_vars>>

(***************************************************************************)
(* Characters and slices.                                                  *)
(***************************************************************************)
SingleChars == { "(", ")", "{", "}", ",", "-", "+", ";", "*" }

BranchingChars == { "!", "=", "<", ">" }

(* char::is_digit(radix) for the radixes the scanner uses.                 *)
IsDigit(c, radix) ==
    \/ c \in { "0", "1", "2", "3", "4", "5", "6", "7", "8", "9" }
    \/ /\ radix = 16
       /\ c \in { "a", "b", "c", "d", "e", "f", "A", "B", "C", "D", "E", "F" }

(* The pattern 'A'..='z': code points 65 to 122, of which the alphabet     *)
(* holds letters and "_".                                                  *)
InWildRange(c) ==
    c \in { "a", "b", "c", "d", "e", "f", "x", "A", "B", "C", "D", "E", "F",
            "X", "[", "]", "^", "_" }

(* len_utf8 of a character.                                                *)
CharWidth(c) == IF c = EAcute THEN 2 ELSE 1

RECURSIVE ByteOffset(_, _)
(* The byte offset of the k-th character (0-based) of s; ByteOffset(s,     *)
(* Len(s)) is s.len().                                                     *)
ByteOffset(s, k) ==
    IF k = 0 THEN 0 ELSE ByteOffset(s, k - 1) + CharWidth(s[k])

IsCharBoundary(s, b) == \E k \in 0..Len(s) : ByteOffset(s, k) = b

(* &self.input[start..current] is defined when start <= current <= len and *)
(* both lie on character boundaries; otherwise the index panics.           *)
SliceOk(s, start, current) ==
    /\ start <= current
    /\ current <= ByteOffset(s, Len(s))
    /\ IsCharBoundary(s, start)
    /\ IsCharBoundary(s, current)

CharIndexOfByte(s, b) == CHOOSE k \in 0..Len(s) : ByteOffset(s, k) = b

(* The characters of &s[start..current], for a slice that is defined.      *)
Slice(s, start, current) ==
    SubSeq(s, CharIndexOfByte(s, start) + 1, CharIndexOfByte(s, current))

(***************************************************************************)
(* Tokens.                                                                 *)
(***************************************************************************)
(* Token::new: a payload-free token type has the empty payload.            *)
Token(token_type, payload, line, column) ==
    [ token_type |-> token_type, payload |-> payload,
      line_number |-> line, column_number |-> column ]

SimpleTokenType(c) ==
    CASE c = "(" -> "LeftParen"
      [] c = ")" -> "RightParen"
      [] c = "{" -> "LeftBrace"
      [] c = "}" -> "RightBrace"
      [] c = "," -> "Comma"
      [] c = "-" -> "Minus"
      [] c = "+" -> "Plus"
      [] c = ";" -> "Semicolon"
      [] c = "*" -> "Star"

BranchingSingle(c) ==
    CASE c = "!" -> "Bang"
      [] c = "=" -> "Equal"
      [] c = "<" -> "Less"
      [] c = ">" -> "Greater"

BranchingDouble(c) ==
    CASE c = "!" -> "BangEqual"
      [] c = "=" -> "EqualEqual"
      [] c = "<" -> "LessEqual"
      [] c = ">" -> "GreaterEqual"

(***************************************************************************)
(* The scanner's state while lex_input runs on the input s: `iter` is how  *)
(* many characters the iterator has yielded (the index of the character    *)
(* peek() shows), `result` is "scanning", "Ok" (lex_input returned Ok) or  *)
(* "panic" (a slice index panicked).                                       *)
(***************************************************************************)
HasNext(s, p) == p < Len(s)

(* The character iter.peek() shows at position p; its index is p.          *)
Peek(s, p) == s[p + 1]

peek_and_check_consume_mutant(s, p, char_to_check) ==
    IF HasNext(s, p) THEN p + 1 ELSE p

(* Scanner::peek_and_check_consume: the iterator position after the call   *)
(* (the call returns TRUE exactly when the position moved).                *)
peek_and_check_consume(s, p, char_to_check) ==
    IF HasNext(s, p) /\ Peek(s, p) = char_to_check THEN p + 1 ELSE p

(* Scanner::add_multiple_token.                                            *)
add_multiple_token(st, token_type, payload, size) ==
    [ st EXCEPT
        !.tokens = Append(@, Token(token_type, payload, st.line_number, st.column_number)),
        !.column_number = @ + size ]

(* Scanner::add_simple_token.                                              *)
add_simple_token(st, token_type) == add_multiple_token(st, token_type, <<>>, 1)

(* A payload token taken from &self.input[start..current]: the token is    *)
(* added when the slice is defined, and the scan panics when it is not.    *)
add_slice_token(s, st, token_type, start, current) ==
    IF SliceOk(s, start, current)
    THEN add_multiple_token(st, token_type, Slice(s, start, current), current - start)
    ELSE [ st EXCEPT !.result = "panic" ]

RECURSIVE StringLoop(_, _, _)
(* The `while let Some(..) = iter.peek()` loop of the string arm, from     *)
(* iterator position p: the final position and `current`.                  *)
StringLoop(s, p, current) ==
    IF ~HasNext(s, p) THEN [ p |-> p, current |-> current ]
    ELSE CASE Peek(s, p) = "\n" -> [ p |-> p, current |-> p ]
           [] Peek(s, p) = "\"" -> [ p |-> p + 1, current |-> p + 1 ]
           [] OTHER -> StringLoop(s, p + 1, p)

RECURSIVE DigitLoop(_, _, _, _)
(* The digit loops of the number arms: eat digits of the radix.            *)
DigitLoop(s, p, current, radix) ==
    IF HasNext(s, p) /\ IsDigit(Peek(s, p), radix)
    THEN DigitLoop(s, p + 1, p + 1, radix)
    ELSE [ p |-> p, current |-> current ]

RECURSIVE CommentLoop(_, _, _)
(* The loop of the comment arm: eat everything up to a newline.            *)
CommentLoop(s, p, current) ==
    IF HasNext(s, p) /\ Peek(s, p) # "\n"
    THEN CommentLoop(s, p + 1, p + 1)
    ELSE [ p |-> p, current |-> current ]

(***************************************************************************)
(* The arms of the match in lex_input.  In each, st.iter = i is the index  *)
(* of the character c that iter.next() has just yielded.                   *)
(***************************************************************************)
single_char_arm(s, st) ==
    [ add_simple_token(st, SimpleTokenType(Peek(s, st.iter))) EXCEPT !.iter = st.iter + 1 ]

branching_multichar_arm(s, st) ==
    LET c == Peek(s, st.iter)
        p == peek_and_check_consume(s, st.iter + 1, "=")
    IN  IF p # st.iter + 1
        THEN [ add_multiple_token(st, BranchingDouble(c), <<>>, 2) EXCEPT !.iter = p ]
        ELSE [ add_simple_token(st, BranchingSingle(c)) EXCEPT !.iter = p ]

string_arm(s, st) ==
    LET start == st.iter
        r == StringLoop(s, st.iter + 1, start)
    IN  [ add_slice_token(s, st, "String", start, r.current) EXCEPT !.iter = r.p ]

dot_arm(s, st) ==
    IF HasNext(s, st.iter + 1) /\ IsDigit(Peek(s, st.iter + 1), 10)
    THEN LET start == st.iter
             \* the arm's own iter.next() (commented `eat the "."`) yields the
             \* character after the ".", the first digit, and leaves `current`
             r == DigitLoop(s, st.iter + 2, start, 10)
         IN  [ add_slice_token(s, st, "Number", start, r.current) EXCEPT !.iter = r.p ]
    ELSE [ add_simple_token(st, "Dot") EXCEPT !.iter = st.iter + 1 ]

digit_arm(s, st) ==
    LET c == Peek(s, st.iter)
        start == st.iter
        current0 == start + 1
    IN  IF c = "0" /\ HasNext(s, st.iter + 1) /\ Peek(s, st.iter + 1) = "x"
        THEN LET r == DigitLoop(s, st.iter + 2, current0, 16)
             IN  [ add_slice_token(s, st, "Number", start, r.current) EXCEPT !.iter = r.p ]
        ELSE LET r1 == DigitLoop(s, st.iter + 1, current0, 10)
                 is_fractional == HasNext(s, r1.p) /\ Peek(s, r1.p) = "."
                 \* current = iter.next().unwrap().0 + 1 eats the "."
                 r2 == IF is_fractional
                       THEN DigitLoop(s, r1.p + 1, r1.p + 1, 10)
                       ELSE r1
             IN  [ add_slice_token(s, st, "Number", start, r2.current) EXCEPT !.iter = r2.p ]

dollar_arm(s, st) ==
    LET start == st.iter
        r == DigitLoop(s, st.iter + 1, start, 16)
    IN  [ add_slice_token(s, st, "Number", start, r.current) EXCEPT !.iter = r.p ]

slash_arm(s, st) ==
    LET p == peek_and_check_consume(s, st.iter + 1, "/")
    IN  IF p # st.iter + 1
        THEN LET start == st.iter
                 r == CommentLoop(s, p, start)
             IN  [ add_slice_token(s, st, "Comment", start, r.current) EXCEPT !.iter = r.p ]
        ELSE [ add_simple_token(st, "Slash") EXCEPT !.iter = p ]

(* ' ' | '\t' => self.column_number += 1                                   *)
whitespace_arm(s, st) ==
    [ st EXCEPT !.column_number = @ + 1, !.iter = @ + 1 ]

(* '\n' => self.next_line()                                                *)
next_line(s, st) ==
    [ st EXCEPT !.line_number = @ + 1, !.column_number = 0, !.iter = @ + 1 ]

(* '\r' => continue                                                        *)
carriage_return_arm(s, st) == [ st EXCEPT !.iter = @ + 1 ]

(* 'A'..='z' => println!("A wild character appeared! ..")                  *)
wild_character_arm(s, st) == [ st EXCEPT !.iter = @ + 1 ]

(* _ => println!("Unexpected character .."); self.column_number += 1       *)
unexpected_character_arm(s, st) ==
    [ st EXCEPT !.column_number = @ + 1, !.iter = @ + 1 ]

(* After the loop: self.add_simple_token(TokenType::EOF, tokens); Ok(..)   *)
append_eof(s, st) == [ add_simple_token(st, "EOF") EXCEPT !.result = "Ok" ]

(* The arm of the match that the character c selects (the first pattern,   *)
(* in source order, that matches).                                         *)
ArmOf(c) ==
    CASE c \in SingleChars -> "single"
      [] c \in BranchingChars -> "branching"
      [] c = "\"" -> "string"
      [] c = "." -> "dot"
      [] IsDigit(c, 10) -> "digit"
      [] c = "$" -> "dollar"
      [] c = "/" -> "slash"
      [] c \in { " ", "\t" } -> "whitespace"
      [] c = "\n" -> "newline"
      [] c = "\r" -> "carriage_return"
      [] InWildRange(c) -> "wild"
      [] OTHER -> "unexpected"

(* One iteration of `while let Some((i, c)) = iter.next()`, or, once the   *)
(* iterator is exhausted, the two statements after the loop.               *)
lex_step(s, st) ==
    IF ~HasNext(s, st.iter) THEN append_eof(s, st)
    ELSE LET arm == ArmOf(Peek(s, st.iter))
         IN  CASE arm = "single" -> single_char_arm(s, st)
               [] arm = "branching" -> branching_multichar_arm(s, st)
               [] arm = "string" -> string_arm(s, st)
               [] arm = "dot" -> dot_arm(s, st)
               [] arm = "digit" -> digit_arm(s, st)
               [] arm = "dollar" -> dollar_arm(s, st)
               [] arm = "slash" -> slash_arm(s, st)
               [] arm = "whitespace" -> whitespace_arm(s, st)
               [] arm = "newline" -> next_line(s, st)
               [] arm = "carriage_return" -> carriage_return_arm(s, st)
               [] arm = "wild" -> wild_character_arm(s, st)
               [] OTHER -> unexpected_character_arm(s, st)

(* Scanner::new(input), with the caller's empty token vector.              *)
ScannerNew ==
    [ iter |-> 0, tokens |-> <<>>, line_number |-> 0, column_number |-> 0,
      result |-> "scanning" ]

RECURSIVE LexFrom(_, _)
LexFrom(s, st) ==
    IF st.result # "scanning" THEN st ELSE LexFrom(s, lex_step(s, st))

(* Scanner::new(s).lex_input(&mut vec![]) run to its end.                  *)
lex_input(s) == LexFrom(s, ScannerNew)

(***************************************************************************)
(* The scanner as a state machine: one action per arm.                     *)
(***************************************************************************)
State ==
    [ iter |-> iter, tokens |-> tokens, line_number |-> line_number,
      column_number |-> column_number, result |-> result ]

Becomes(st) ==
    /\ iter' = st.iter
    /\ tokens' = st.tokens
    /\ line_number' = st.line_number
    /\ column_number' = st.column_number
    /\ result' = st.result
    /\ UNCHANGED input
    /\ UNCHANGED parser_vars

Scanning == result = "scanning" /\ HasNext(input, iter)

AtArm(arm) == Scanning /\ ArmOf(Peek(input, iter)) = arm

SingleChar == AtArm("single") /\ Becomes(single_char_arm(input, State))

BranchingMultichar == AtArm("branching") /\ Becomes(branching_multichar_arm(input, State))

StringLiteral == AtArm("string") /\ Becomes(string_arm(input, State))

DotOrNumber == AtArm("dot") /\ Becomes(dot_arm(input, State))

DecimalOrHexNumber == AtArm("digit") /\ Becomes(digit_arm(input, State))

SecondaryHex == AtArm("dollar") /\ Becomes(dollar_arm(input, State))

SlashOrComment == AtArm("slash") /\ Becomes(slash_arm(input, State))

Whitespace == AtArm("whitespace") /\ Becomes(whitespace_arm(input, State))

NextLine == AtArm("newline") /\ Becomes(next_line(input, State))

CarriageReturn == AtArm("carriage_return") /\ Becomes(carriage_return_arm(input, State))

WildCharacter == AtArm("wild") /\ Becomes(wild_character_arm(input, State))

UnexpectedCharacter == AtArm("unexpected") /\ Becomes(unexpected_character_arm(input, State))

AppendEOF ==
    /\ result = "scanning"
    /\ ~HasNext(input, iter)
    /\ Becomes(append_eof(input, State))

(* No parser has been built.                                               *)
ParserIdle ==
    /\ p_tokens = <<>>
    /\ p_iter = 1
    /\ ast = <<>>
    /\ success = <<>>
    /\ allow_unidentified = FALSE
    /\ do_not_pair = FALSE
    /\ stack = <<>>
    /\ ret = <<>>
    /\ p_state = "idle"

(* Scanner::new on an input of at most MaxLen characters of the alphabet.  *)
Init ==
    /\ \E n \in 0..MaxLen : input \in [ 1..n -> Alphabet ]
    /\ iter = ScannerNew.iter
    /\ tokens = ScannerNew.tokens
    /\ line_number = ScannerNew.line_number
    /\ column_number = ScannerNew.column_number
    /\ result = ScannerNew.result
    /\ ParserIdle

Next ==
    \/ SingleChar
    \/ BranchingMultichar
    \/ StringLiteral
    \/ DotOrNumber
    \/ DecimalOrHexNumber
    \/ SecondaryHex
    \/ SlashOrComment
    \/ Whitespace
    \/ NextLine
    \/ CarriageReturn
    \/ WildCharacter
    \/ UnexpectedCharacter
    \/ AppendEOF

Spec == Init /\ [][Next]_vars

(***************************************************************************)
(* Token::print_name: the lexeme of a token, as a sequence of characters.  *)
(***************************************************************************)
print_name(t) ==
    LET k == t.token_type
    IN  CASE k = "LeftParen" -> << "(" >>
          [] k = "RightParen" -> << ")" >>
          [] k = "LeftBrace" -> << "{" >>
          [] k = "RightBrace" -> << "}" >>
          [] k = "LeftBracket" -> << "[" >>
          [] k = "RightBracket" -> << "]" >>
          [] k = "Comma" -> << "," >>
          [] k = "Dot" -> << "." >>
          [] k = "Colon" -> << ":" >>
          [] k = "Semicolon" -> << ";" >>
          [] k = "Slash" -> << "/" >>
          [] k = "Star" -> << "*" >>
          [] k = "Mod" -> << "%" >>
          [] k = "Hashtag" -> << "#" >>
          [] k = "Newline" -> << "\n" >>
          [] k = "Minus" -> << "-" >>
          [] k = "Plus" -> << "+" >>
          [] k = "Incrementer" -> << "+", "+" >>
          [] k = "Decrementer" -> << "-", "-" >>
          [] k = "Bang" -> << "!" >>
          [] k = "Hook" -> << "?" >>
          [] k = "BangEqual" -> << "!", "=" >>
          [] k = "Equal" -> << "=" >>
          [] k = "EqualEqual" -> << "=", "=" >>
          [] k = "Greater" -> << ">" >>
          [] k = "GreaterEqual" -> << ">", "=" >>
          [] k = "Less" -> << "<" >>
          [] k = "LessEqual" -> << "<", "=" >>
          [] k \in { "Identifier", "String", "Number", "Comment",
                     "MultilineComment", "UnidentifiedInput" } -> t.payload
          [] k = "EOF" -> << "\n" >>

RECURSIVE ConcatLexemes(_)
(* The lexemes of a token sequence, concatenated in order.                 *)
ConcatLexemes(ts) ==
    IF ts = <<>> THEN <<>> ELSE print_name(Head(ts)) \o ConcatLexemes(Tail(ts))

(***************************************************************************)
(* Claims about the scanner.                                               *)
(***************************************************************************)
TypesOf(ts) == [ k \in 1..Len(ts) |-> ts[k].token_type ]

TypesAndPayloads(ts) == [ k \in 1..Len(ts) |-> << ts[k].token_type, ts[k].payload >> ]

Ascii(s) == \A k \in 1..Len(s) : s[k] # EAcute

(* C1: once lex_input has ended on an input, whatever the input, the       *)
(* token vector holds exactly one EOF token and it is the last element.    *)
C1_EOFLastForEveryInput ==
    result # "scanning" =>
        /\ tokens # <<>>
        /\ tokens[Len(tokens)].token_type = "EOF"
        /\ Cardinality({ k \in 1..Len(tokens) : tokens[k].token_type = "EOF" }) = 1

(* C2: lex_input is total on well-formed UTF-8: no slice                   *)
(* input[start..current] it computes is out of bounds or off a character   *)
(* boundary, so the scan never panics.                                     *)
C2_NeverPanics == result # "panic"

Digits10(s) == \A k \in 1..Len(s) : IsDigit(s[k], 10)

Digits16(s) == \A k \in 1..Len(s) : IsDigit(s[k], 16)

(* The numeric literal forms, as the claim C3 lists them.                  *)
IsNumericLiteral(s) ==
    \/ Len(s) >= 1 /\ Digits10(s) /\ ~(Len(s) >= 2 /\ s[1] = "0" /\ s[2] = "x")
    \/ \E d \in 2..Len(s) :
          /\ s[d] = "."
          /\ Digits10(SubSeq(s, 1, d - 1))
          /\ Digits10(SubSeq(s, d + 1, Len(s)))
    \/ Len(s) >= 2 /\ s[1] = "." /\ Digits10(Tail(s))
    \/ Len(s) >= 3 /\ s[1] = "0" /\ s[2] = "x" /\ Digits16(SubSeq(s, 3, Len(s)))
    \/ Len(s) >= 2 /\ s[1] = "$" /\ Digits16(Tail(s))

(* C3: an input that is exactly one numeric literal scans to one Number    *)
(* token whose lexeme is the whole input, followed by EOF; and a "." not   *)
(* followed by a digit yields a Dot token, the character after it left     *)
(* unconsumed.                                                             *)
C3_NumberSpansWholeLiteral ==
    /\ (result # "scanning" /\ IsNumericLiteral(input)) =>
          TypesAndPayloads(tokens) = << << "Number", input >>, << "EOF", <<>> >> >>
    /\ (AtArm("dot") /\ ~(HasNext(input, iter + 1) /\ IsDigit(Peek(input, iter + 1), 10))) =>
          LET after == lex_step(input, State)
          IN  /\ TypesAndPayloads(after.tokens) =
                    Append(TypesAndPayloads(tokens), << "Dot", <<>> >>)
              /\ after.iter = iter + 1

(* The index (0-based) of the first character at or after p that is one    *)
(* of the characters of stop, or Len(s) when there is none.                *)
FirstOf(s, p, stop) ==
    IF \E k \in p..(Len(s) - 1) : s[k + 1] \in stop
    THEN CHOOSE k \in p..(Len(s) - 1) :
            /\ s[k + 1] \in stop
            /\ \A j \in p..(k - 1) : s[j + 1] \notin stop
    ELSE Len(s)

(* The scanner is at an opening quote; where its string ends.              *)
StringEnd == FirstOf(input, iter + 1, { "\"", "\n" })

ClosedString ==
    AtArm("string") /\ StringEnd < Len(input) /\ input[StringEnd + 1] = "\""

UnclosedString == AtArm("string") /\ ~ClosedString

(* C4: a string literal closed on its line becomes one String token whose  *)
(* lexeme runs from the opening quote through the closing quote, and the   *)
(* scan resumes at the character after the closing quote.                  *)
C4_ClosedStringLexeme ==
    [][ClosedString =>
          /\ result' = "scanning"
          /\ TypesAndPayloads(tokens') =
                Append(TypesAndPayloads(tokens),
                       << "String", SubSeq(input, iter + 1, StringEnd + 1) >>)
          /\ iter' = StringEnd + 1]_vars

(* C5: a string literal with no closing quote before the next newline or   *)
(* the end of input becomes one String token whose lexeme runs from the    *)
(* opening quote through the last character before that boundary, the      *)
(* boundary itself left to be scanned, and no error is returned.           *)
C5_UnclosedStringLexeme ==
    [][UnclosedString =>
          /\ result' = "scanning"
          /\ TypesAndPayloads(tokens') =
                Append(TypesAndPayloads(tokens),
                       << "String", SubSeq(input, iter + 1, StringEnd) >>)
          /\ iter' = StringEnd]_vars

(* The scanner is at the first "/" of a line comment that a newline ends.  *)
CommentEnd == FirstOf(input, iter + 2, { "\n" })

TerminatedComment ==
    /\ AtArm("slash")
    /\ HasNext(input, iter + 1)
    /\ Peek(input, iter + 1) = "/"
    /\ CommentEnd < Len(input)

(* C6: a line comment that a newline terminates becomes a Comment token    *)
(* whose lexeme starts at the first "/" and ends at the last character     *)
(* before the newline, and the next token of the sequence is a Newline     *)
(* token.                                                                  *)
C6_CommentThenNewline ==
    TerminatedComment =>
        LET done == LexFrom(input, State)
            k == Len(tokens) + 1
        IN  /\ done.result = "Ok"
            /\ Len(done.tokens) > k
            /\ done.tokens[k].token_type = "Comment"
            /\ done.tokens[k].payload = SubSeq(input, iter + 1, CommentEnd)
            /\ done.tokens[k + 1].token_type = "Newline"

(* The one- and two-character token of each branching operator, as the     *)
(* claim C7 names them.                                                    *)
C7_Expected(c) ==
    CASE c = "!" -> << "Bang", "BangEqual" >>
      [] c = "=" -> << "Equal", "EqualEqual" >>
      [] c = "<" -> << "Less", "LessEqual" >>
      [] c = ">" -> << "Greater", "GreaterEqual" >>

(* C7: at "!", "=", "<" or ">", when the next character is "=" the         *)
(* two-character token is emitted and both characters are consumed;        *)
(* otherwise (also at the end of the input) the one-character token is     *)
(* emitted and the next character is left unconsumed.                      *)
C7_BranchingOperators ==
    [][(Scanning /\ Peek(input, iter) \in { "!", "=", "<", ">" }) =>
          LET c == Peek(input, iter)
              followed == iter + 1 < Len(input) /\ input[iter + 2] = "="
          IN  /\ result' = "scanning"
              /\ tokens' = Append(tokens,
                    Token(C7_Expected(c)[IF followed THEN 2 ELSE 1], <<>>,
                          line_number, column_number))
              /\ iter' = IF followed THEN iter + 2 ELSE iter + 1]_vars

(* A scan of "<=>" has ended: "<=" was one token, ">" at the end of the    *)
(* input another.                                                          *)
C7_Witness ==
    /\ input = << "<", "=", ">" >>
    /\ result = "Ok"
    /\ TypesOf(tokens) = << "LessEqual", "Greater", "EOF" >>

(* C8: at a character no token rule covers, no token is emitted, the       *)
(* column advances by exactly 1 and the scan goes on with the next         *)
(* character.                                                              *)
C8_UncoveredCharacterAdvancesColumn ==
    [][(Scanning /\ ArmOf(Peek(input, iter)) \in { "wild", "unexpected" }) =>
          /\ tokens' = tokens
          /\ column_number' = column_number + 1
          /\ iter' = iter + 1
          /\ result' = "scanning"]_vars

(* No character of the input reached one of the two fallback arms: every   *)
(* character is a token's, whitespace, a newline or a carriage return.     *)
RECURSIVE AllRecognizedFrom(_, _)
AllRecognizedFrom(s, st) ==
    IF st.result # "scanning" \/ ~HasNext(s, st.iter) THEN TRUE
    ELSE /\ ArmOf(Peek(s, st.iter)) \notin { "wild", "unexpected" }
         /\ AllRecognizedFrom(s, lex_step(s, st))

NoUnrecognizedCharacters(s) == AllRecognizedFrom(s, ScannerNew)

(* The round trip of C9 on the tokens ts of the source s.                  *)
RoundTrip(s, ts) ==
    /\ ConcatLexemes(ts) = s
    /\ TypesAndPayloads(lex_input(ConcatLexemes(ts)).tokens) = TypesAndPayloads(ts)

(* C9: for an input with no unrecognized characters, the lexemes of the    *)
(* tokens lex_input produced, concatenated in order, are the source, and   *)
(* scanning that concatenation gives the same tokens.  The claim is taken  *)
(* at its most lenient: it counts as kept when it holds either of all the  *)
(* tokens or of the tokens before the EOF sentinel.                        *)
C9_RoundTrip ==
    (result = "Ok" /\ NoUnrecognizedCharacters(input)) =>
        \/ RoundTrip(input, tokens)
        \/ /\ ConcatLexemes(SubSeq(tokens, 1, Len(tokens) - 1)) = input
           /\ TypesAndPayloads(lex_input(input).tokens) = TypesAndPayloads(tokens)

(***************************************************************************)
(* The parser (src/src/parser.rs).  A token sequence is a sequence of      *)
(* token types; a token held by a node of the tree is its index in the     *)
(* sequence.  The parser is a machine m: the fields of Parser (pos is the  *)
(* index of the token iter.peek() shows), the stack of the calls in        *)
(* progress and the value the last finished call returned.  A frame of the *)
(* stack holds the function, the point where it resumes and its locals.    *)
(* One step runs the function on top of the stack from the point where it  *)
(* stands to its next call or to its return.                               *)
(***************************************************************************)
None == <<>>

Some(x) == << x >>

Ret(ps, v) == [ ps |-> ps, v |-> v ]

Top(m) == m.stack[Len(m.stack)]

Frame(fn, loc) == [ fn |-> fn, pc |-> "start", loc |-> loc ]

(* `let x = self.fn(args)`: the caller will resume at pc with locals loc.  *)
Call(m, pc, loc, fn, args) ==
    [ m EXCEPT !.stack = SubSeq(@, 1, Len(@) - 1)
                            \o << [ fn |-> Top(m).fn, pc |-> pc, loc |-> loc ],
                                  Frame(fn, args) >> ]

(* `return self.fn(args)`: fn's result is the caller's result.             *)
Jump(m, fn, args) ==
    [ m EXCEPT !.stack = SubSeq(@, 1, Len(@) - 1) \o << Frame(fn, args) >> ]

(* The function stays on top and resumes at pc with locals loc.            *)
Goto(m, pc, loc) ==
    [ m EXCEPT !.stack = SubSeq(@, 1, Len(@) - 1)
                            \o << [ fn |-> Top(m).fn, pc |-> pc, loc |-> loc ] >> ]

(* `return v`.                                                             *)
Return(m, v) == [ m EXCEPT !.stack = SubSeq(@, 1, Len(@) - 1), !.ret = v ]

HasToken(toks, ps) == ps.pos <= Len(toks)

(* The token type iter.peek() shows, "<None>" once the iterator is         *)
(* exhausted.                                                              *)
PeekType(toks, ps) == IF HasToken(toks, ps) THEN toks[ps.pos] ELSE "<None>"

(* Parser::consume_next; every call of it in the source follows a peek     *)
(* that returned Some.                                                     *)
consume_next(toks, ps) == Ret([ ps EXCEPT !.pos = @ + 1 ], ps.pos)

(* Parser::check_next.                                                     *)
check_next(toks, ps, token_type) == PeekType(toks, ps) = token_type

(* Parser::check_next_either.                                              *)
check_next_either(toks, ps, token_type1, token_type2) ==
    PeekType(toks, ps) \in { token_type1, token_type2 }

(* Parser::check_next_consume.                                             *)
check_next_consume(toks, ps, token_type) ==
    IF check_next(toks, ps, token_type)
    THEN Ret(consume_next(toks, ps).ps, TRUE)
    ELSE Ret(ps, FALSE)

(* The index after the run of tokens from pos on whose types are in types. *)
RunEnd(toks, pos, types) ==
    CHOOSE q \in pos..(Len(toks) + 1) :
        /\ \A i \in pos..(q - 1) : toks[i] \in types
        /\ q = Len(toks) + 1 \/ toks[q] \notin types

(* The tokens of positions from..(to - 1), in order.                       *)
TokensFrom(from, to) == [ i \in 1..(to - from) |-> from + i - 1 ]

TokenTypes(toks) == { toks[i] : i \in 1..Len(toks) }

TriviaTypes == { "Newline", "Comment", "MultilineComment" }

(* Parser::get_newlines_and_comments.                                      *)
get_newlines_and_comments_mutant(toks, ps) ==
    LET end == RunEnd(toks, ps.pos, TriviaTypes)
    IN  Ret([ ps EXCEPT !.pos = end ],
            SelectSeq(TokensFrom(ps.pos, end), LAMBDA i : toks[i] = "Newline"))

get_newlines_and_comments(toks, ps) ==
    LET end == RunEnd(toks, ps.pos, TriviaTypes)
    IN  Ret([ ps EXCEPT !.pos = end ], TokensFrom(ps.pos, end))

(* Parser::create_comment_expr_box.                                        *)
create_comment_expr_box(toks, ps, expr) ==
    LET c == get_newlines_and_comments(toks, ps)
    IN  Ret(c.ps, [ expr |-> expr, trivia |-> c.v ])

(* Parser::create_expr_box_no_comment.                                     *)
create_expr_box_no_comment(expr) == [ expr |-> expr, trivia |-> <<>> ]

(* StatementWrapper::new.                                                  *)
StatementWrapper(statement_, has_semicolon) ==
    [ statement |-> statement_, has_semicolon |-> has_semicolon ]

(* Parser::get_remaining_tokens_on_line.                                   *)
get_remaining_tokens_on_line(toks, ps) ==
    LET end == RunEnd(toks, ps.pos, TokenTypes(toks) \ { "Newline", "EOF" })
    IN  Ret([ ps EXCEPT !.pos = end ], TokensFrom(ps.pos, end))

(* Parser::statement.                                                      *)
statement(toks, m) ==
    LET type == PeekType(toks, m)
        t == consume_next(toks, m)
    IN  CASE type = "Comment" ->
                Return(t.ps, StatementWrapper([ type |-> "Comment", comment |-> t.v ], FALSE))
          [] type = "MultilineComment" ->
                Return(t.ps, StatementWrapper(
                    [ type |-> "MultilineComment", multiline_comment |-> t.v ], FALSE))
          [] type \in { "RegionBegin", "RegionEnd" } ->
                LET multi_word_name == get_remaining_tokens_on_line(toks, t.ps)
                IN  Return(multi_word_name.ps, StatementWrapper(
                        [ type |-> type, multi_word_name |-> multi_word_name.v ], FALSE))
          [] type = "Macro" -> Jump(t.ps, "macro_statement", <<>>)
          [] type = "Define" -> Jump(t.ps, "define_statement", <<>>)
          [] type = "Var" -> Jump(m, "series_var_declaration", <<>>)
          [] type = "Enum" -> Jump(t.ps, "enum_declaration", <<>>)
          [] type = "If" -> Jump(t.ps, "if_statement", <<>>)
          [] type = "Return" -> Jump(t.ps, "return_statement", <<>>)
          [] type = "Break" -> Jump(t.ps, "break_statement", <<>>)
          [] type = "Exit" -> Jump(t.ps, "exit_statment", <<>>)
          [] type = "Do" -> Jump(t.ps, "do_until_statement", <<>>)
          [] type \in { "While", "With", "Repeat" } ->
                Jump(t.ps, "while_with_repeat", [ token |-> t.v ])
          [] type = "Switch" -> Jump(t.ps, "switch_statement", <<>>)
          [] type = "For" -> Jump(t.ps, "for_statement", <<>>)
          [] type = "LeftBrace" -> Jump(t.ps, "block", <<>>)
          [] OTHER -> Jump(m, "expression_statement", <<>>)

(* Parser::macro_statement; a step of its loop takes one token.            *)
macro_statement(toks, m) ==
    LET f == Top(m)
        type == PeekType(toks, m)
        t == consume_next(toks, m)
    IN  CASE f.pc = "start" ->
                Goto(m, "loop", [ macro_body |-> <<>>, ignore_newline |-> FALSE ])
          [] f.pc = "loop" /\ type = "Newline" /\ f.loc.ignore_newline ->
                Goto(t.ps, "loop", [ f.loc EXCEPT !.macro_body = Append(@, t.v) ])
          [] f.pc = "loop" /\ type = "Backslash" ->
                Goto(t.ps, "loop",
                     [ macro_body |-> Append(f.loc.macro_body, t.v), ignore_newline |-> TRUE ])
          [] f.pc = "loop" /\ type \notin { "Newline", "Backslash", "EOF", "<None>" } ->
                Goto(t.ps, "loop",
                     [ macro_body |-> Append(f.loc.macro_body, t.v), ignore_newline |-> FALSE ])
          [] OTHER ->
                Return(m, StatementWrapper(
                    [ type |-> "Macro", macro_body |-> f.loc.macro_body ], FALSE))

(* Parser::define_statement.                                               *)
define_statement(toks, m) ==
    LET f == Top(m)
    IN  CASE f.pc = "start" -> Call(m, "script_name", <<>>, "expression", <<>>)
          [] f.pc = "script_name" -> Goto(m, "loop", [ script_name |-> m.ret, body |-> <<>> ])
          [] f.pc = "loop" ->
                IF PeekType(toks, m) \in { "EOF", "Define", "<None>" }
                THEN Return(m, StatementWrapper(
                        [ type |-> "Define", script_name |-> f.loc.script_name,
                          body |-> f.loc.body ], FALSE))
                ELSE Call(m, "body", f.loc, "statement", <<>>)
          [] f.pc = "body" -> Goto(m, "loop", [ f.loc EXCEPT !.body = Append(@, m.ret) ])

(* Parser::series_var_declaration.                                         *)
series_var_declaration(toks, m) ==
    LET f == Top(m)
        comma == check_next_consume(toks, m, "Comma")
        has_semicolon == check_next_consume(toks, m, "Semicolon")
    IN  CASE f.pc = "start" ->
                Call(check_next_consume(toks, m, "Var").ps, "var_decl", [ var_decl |-> <<>> ],
                     "var_declaration", <<>>)
          [] f.pc = "var_decl" ->
                Goto(m, "loop", [ var_decl |-> Append(f.loc.var_decl, m.ret) ])
          [] f.pc = "loop" /\ comma.v ->
                Call(comma.ps, "var_decl", f.loc, "var_declaration", <<>>)
          [] f.pc = "loop" /\ ~comma.v ->
                Return(has_semicolon.ps, StatementWrapper(
                    [ type |-> "VariableDeclList", var_decl |-> f.loc.var_decl ],
                    has_semicolon.v))

(* Parser::var_declaration.                                                *)
var_declaration(toks, m) ==
    LET f == Top(m)
        say_var == check_next_consume(toks, m, "Var")
        comments == get_newlines_and_comments(toks, consume_next(toks, m).ps)
    IN  CASE f.pc = "start" ->
                Call(say_var.ps, "var_expr", [ say_var |-> say_var.v ], "expression", <<>>)
          [] f.pc = "var_expr" /\ check_next(toks, m, "Equal") ->
                Call(comments.ps, "assignment",
                     [ say_var |-> f.loc.say_var, var_expr |-> m.ret, comments |-> comments.v ],
                     "expression", <<>>)
          [] f.pc = "var_expr" /\ ~check_next(toks, m, "Equal") ->
                Return(m, [ var_expr |-> m.ret, assignment |-> None,
                            say_var |-> f.loc.say_var ])
          [] f.pc = "assignment" ->
                Return(m, [ var_expr |-> f.loc.var_expr,
                            assignment |-> Some(<< f.loc.comments, m.ret >>),
                            say_var |-> f.loc.say_var ])

(* Parser::block.                                                          *)
block(toks, m) ==
    LET f == Top(m)
        comments_after_lbrace == get_newlines_and_comments(toks, m)
        rbrace == check_next_consume(toks, m, "RightBrace")
        after == IF HasToken(toks, m) THEN rbrace.ps ELSE m
        has_semicolon == check_next_consume(toks, after, "Semicolon")
    IN  CASE f.pc = "start" ->
                Goto(comments_after_lbrace.ps, "loop",
                     [ statements |-> <<>>,
                       comments_after_lbrace |-> comments_after_lbrace.v ])
          [] f.pc = "loop" /\ HasToken(toks, m) /\ ~rbrace.v ->
                Call(m, "statement", f.loc, "statement", <<>>)
          [] f.pc = "statement" ->
                Goto(m, "loop", [ f.loc EXCEPT !.statements = Append(@, m.ret) ])
          [] OTHER ->
                Return(has_semicolon.ps, StatementWrapper(
                    [ type |-> "Block", statements |-> f.loc.statements,
                      comments_after_lbrace |-> f.loc.comments_after_lbrace ],
                    has_semicolon.v))

(* Parser::if_statement.                                                   *)
if_statement(toks, m) ==
    LET f == Top(m)
        comments_between == get_newlines_and_comments(toks, m)
        else_ == check_next_consume(toks, comments_between.ps, "Else")
        no_else_semicolon == check_next_consume(toks, else_.ps, "Semicolon")
        has_semicolon == check_next_consume(toks, m, "Semicolon")
    IN  CASE f.pc = "start" -> Call(m, "condition", <<>>, "expression", <<>>)
          [] f.pc = "condition" -> Call(m, "then_branch", [ condition |-> m.ret ],
                                        "statement", <<>>)
          [] f.pc = "then_branch" /\ else_.v ->
                Call(else_.ps, "else_branch",
                     [ condition |-> f.loc.condition, then_branch |-> m.ret,
                       comments_between |-> comments_between.v ],
                     "statement", <<>>)
          [] f.pc = "then_branch" /\ ~else_.v ->
                Return(no_else_semicolon.ps, StatementWrapper(
                    [ type |-> "If", condition |-> f.loc.condition,
                      then_branch |-> m.ret,
                      comments_between |-> comments_between.v,
                      else_branch |-> None ],
                    no_else_semicolon.v))
          [] f.pc = "else_branch" ->
                Return(has_semicolon.ps, StatementWrapper(
                    [ type |-> "If", condition |-> f.loc.condition,
                      then_branch |-> f.loc.then_branch,
                      comments_between |-> f.loc.comments_between,
                      else_branch |-> Some(m.ret) ],
                    has_semicolon.v))

(* Parser::while_with_repeat.                                              *)
while_with_repeat(toks, m) ==
    LET f == Top(m)
        has_semicolon == check_next_consume(toks, m, "Semicolon")
    IN  CASE f.pc = "start" -> Call(m, "condition", f.loc, "expression", <<>>)
          [] f.pc = "condition" ->
                Call(m, "body", [ token |-> f.loc.token, condition |-> m.ret ],
                     "statement", <<>>)
          [] f.pc = "body" ->
                Return(has_semicolon.ps, StatementWrapper(
                    [ type |-> "WhileWithRepeat", token |-> f.loc.token,
                      condition |-> f.loc.condition, body |-> m.ret ],
                    has_semicolon.v))

(* Parser::do_until_statement.                                             *)
do_until_statement(toks, m) ==
    LET f == Top(m)
        comments_between == get_newlines_and_comments(toks, m)
        until == check_next_consume(toks, comments_between.ps, "Until")
        has_semicolon == check_next_consume(toks, m, "Semicolon")
    IN  CASE f.pc = "start" -> Call(m, "body", <<>>, "statement", <<>>)
          [] f.pc = "body" ->
                Call(until.ps, "condition",
                     [ body |-> m.ret, comments_between |-> comments_between.v ],
                     "expression", <<>>)
          [] f.pc = "condition" ->
                Return(has_semicolon.ps, StatementWrapper(
                    [ type |-> "DoUntil", comments_between |-> f.loc.comments_between,
                      condition |-> m.ret, body |-> f.loc.body ],
                    has_semicolon.v))

(* A Case of a switch.                                                     *)
Case(loc) ==
    [ comments_after_case |-> loc.comments_after_case, case_type |-> loc.case_type,
      comments_after_colon |-> loc.comments_after_colon, statements |-> loc.statements ]

(* Parser::switch_statement.  The loop over the cases takes its token with *)
(* iter.next(): the token that is neither `case` nor `default` and ends    *)
(* the loop is consumed.                                                   *)
switch_statement(toks, m) ==
    LET f == Top(m)
        type == PeekType(toks, m)
        lbrace == check_next_consume(toks, m, "LeftBrace")
        comments_after_lbrace == get_newlines_and_comments(toks, lbrace.ps)
        token == consume_next(toks, m)
        comments_after_case ==
            get_newlines_and_comments(toks, IF f.pc = "loop" THEN token.ps ELSE m)
        colon == check_next_consume(toks, comments_after_case.ps, "Colon")
        comments_after_colon == get_newlines_and_comments(toks, colon.ps)
        after_loop == IF HasToken(toks, m) THEN token.ps ELSE m
        rbrace == check_next_consume(toks, after_loop, "RightBrace")
        has_semicolon == check_next_consume(toks, rbrace.ps, "Semicolon")
    IN  CASE f.pc = "start" -> Call(m, "condition", <<>>, "expression", <<>>)
          [] f.pc = "condition" ->
                Goto(comments_after_lbrace.ps, "loop",
                     [ condition |-> m.ret, cases |-> <<>>,
                       comments_after_lbrace |-> comments_after_lbrace.v ])
          [] f.pc = "loop" /\ type = "Case" ->
                Call(token.ps, "constant", f.loc, "expression", <<>>)
          [] f.pc = "constant" \/ (f.pc = "loop" /\ type = "DefaultCase") ->
                Goto(comments_after_colon.ps, "statements",
                     [ condition |-> f.loc.condition, cases |-> f.loc.cases,
                       comments_after_lbrace |-> f.loc.comments_after_lbrace,
                       comments_after_case |-> comments_after_case.v,
                       case_type |-> IF f.pc = "constant" THEN << "Case", m.ret >>
                                     ELSE << "Default" >>,
                       comments_after_colon |-> comments_after_colon.v,
                       statements |-> <<>> ])
          [] f.pc = "statements" ->
                IF type \in { "DefaultCase", "Case", "RightBrace", "<None>" }
                THEN Goto(m, "loop",
                          [ condition |-> f.loc.condition,
                            cases |-> Append(f.loc.cases, Case(f.loc)),
                            comments_after_lbrace |-> f.loc.comments_after_lbrace ])
                ELSE Call(m, "statement", f.loc, "statement", <<>>)
          [] f.pc = "statement" ->
                Goto(m, "statements", [ f.loc EXCEPT !.statements = Append(@, m.ret) ])
          [] OTHER ->
                Return(has_semicolon.ps, StatementWrapper(
                    [ type |-> "Switch",
                      comments_after_lbrace |-> f.loc.comments_after_lbrace,
                      cases |-> f.loc.cases, condition |-> f.loc.condition ],
                    has_semicolon.v))

(* Parser::for_statement.                                                  *)
for_statement(toks, m) ==
    LET f == Top(m)
        lparen == check_next_consume(toks, m, "LeftParen")
        no_initializer == check_next_consume(toks, lparen.ps, "Semicolon")
        no_condition == check_next_consume(toks, m, "Semicolon")
        semicolon == check_next_consume(toks, m, "Semicolon")
        rparen == check_next_consume(toks, semicolon.ps, "RightParen")
        after_increment == check_next_consume(toks, m, "RightParen")
        has_semicolon == check_next_consume(toks, m, "Semicolon")
    IN  CASE f.pc = "start" /\ no_initializer.v ->
                Goto(no_initializer.ps, "condition", [ initializer |-> None ])
          [] f.pc = "start" /\ check_next(toks, lparen.ps, "Var") ->
                Call(lparen.ps, "initializer", <<>>, "series_var_declaration", <<>>)
          [] f.pc = "start" ->
                Call(lparen.ps, "initializer", <<>>, "expression_statement", <<>>)
          [] f.pc = "initializer" ->
                Goto(m, "condition", [ initializer |-> Some(m.ret) ])
          [] f.pc = "condition" /\ no_condition.v ->
                Goto(no_condition.ps, "semicolon",
                     [ initializer |-> f.loc.initializer, condition |-> None ])
          [] f.pc = "condition" ->
                Call(m, "some_condition", f.loc, "expression", <<>>)
          [] f.pc = "some_condition" ->
                Goto(m, "semicolon",
                     [ initializer |-> f.loc.initializer, condition |-> Some(m.ret) ])
          [] f.pc = "semicolon" /\ check_next(toks, semicolon.ps, "RightParen") ->
                Call(rparen.ps, "body",
                     [ initializer |-> f.loc.initializer, condition |-> f.loc.condition,
                       increment |-> None ],
                     "statement", <<>>)
          [] f.pc = "semicolon" ->
                Call(semicolon.ps, "increment", f.loc, "expression", <<>>)
          [] f.pc = "increment" ->
                Call(after_increment.ps, "body",
                     [ initializer |-> f.loc.initializer, condition |-> f.loc.condition,
                       increment |-> Some(m.ret) ],
                     "statement", <<>>)
          [] f.pc = "body" ->
                Return(has_semicolon.ps, StatementWrapper(
                    [ type |-> "For", initializer |-> f.loc.initializer,
                      condition |-> f.loc.condition, increment |-> f.loc.increment,
                      body |-> m.ret ],
                    has_semicolon.v))

(* Parser::return_statement.                                               *)
return_statement(toks, m) ==
    LET f == Top(m)
        has_semicolon == check_next_consume(toks, m, "Semicolon")
    IN  CASE f.pc = "start" /\ ~check_next(toks, m, "Semicolon") ->
                Call(m, "expression", <<>>, "expression", <<>>)
          [] OTHER ->
                Return(has_semicolon.ps, StatementWrapper(
                    [ type |-> "Return",
                      expression |-> IF f.pc = "start" THEN None ELSE Some(m.ret) ],
                    has_semicolon.v))

(* Parser::break_statement.                                                *)
break_statement(toks, m) ==
    LET has_semicolon == check_next_consume(toks, m, "Semicolon")
    IN  Return(has_semicolon.ps, StatementWrapper([ type |-> "Break" ], has_semicolon.v))

(* Parser::exit_statment.                                                  *)
exit_statment(toks, m) ==
    LET has_semicolon == check_next_consume(toks, m, "Semicolon")
    IN  Return(has_semicolon.ps, StatementWrapper([ type |-> "Exit" ], has_semicolon.v))

(* Parser::enum_declaration.                                               *)
enum_declaration(toks, m) ==
    LET f == Top(m)
        lbrace == check_next_consume(toks, m, "LeftBrace")
        comments_after_lbrace == get_newlines_and_comments(toks, lbrace.ps)
        has_semicolon == check_next_consume(toks, m, "Semicolon")
    IN  CASE f.pc = "start" -> Call(m, "name", <<>>, "expression", <<>>)
          [] f.pc = "name" ->
                Call(comments_after_lbrace.ps, "members",
                     [ name |-> m.ret, comments_after_lbrace |-> comments_after_lbrace.v ],
                     "finish_call_delimited_expression",
                     [ end_token_type |-> "RightBrace", delimiter_type |-> "Comma" ])
          [] f.pc = "members" ->
                Return(has_semicolon.ps, StatementWrapper(
                    [ type |-> "EnumDeclaration", name |-> f.loc.name,
                      comments_after_lbrace |-> f.loc.comments_after_lbrace,
                      members |-> m.ret ],
                    has_semicolon.v))

(* Parser::expression_statement.                                           *)
expression_statement(toks, m) ==
    LET f == Top(m)
        has_semicolon == check_next_consume(toks, m, "Semicolon")
    IN  CASE f.pc = "start" -> Call(m, "expr", <<>>, "expression", <<>>)
          [] f.pc = "expr" ->
                Return(has_semicolon.ps, StatementWrapper(
                    [ type |-> "ExpresssionStatement", expression |-> m.ret ],
                    has_semicolon.v))

(* Parser::expression.                                                     *)
expression(toks, m) ==
    CASE Top(m).pc = "start" ->
            Call([ m EXCEPT !.allow_unidentified = TRUE ], "ret", <<>>, "assignment", <<>>)
      [] Top(m).pc = "ret" ->
            Return([ m EXCEPT !.allow_unidentified = FALSE ], m.ret)

AssignmentOperators ==
    { "Equal", "PlusEquals", "MinusEquals", "StarEquals", "SlashEquals",
      "BitXorEquals", "BitOrEquals", "BitAndEquals", "ModEquals" }

assignment_mutant(toks, m) ==
    LET f == Top(m)
        operator == consume_next(toks, m)
        comments == get_newlines_and_comments(toks, operator.ps)
    IN  CASE f.pc = "start" -> Call(m, "expr", <<>>, "ternary", <<>>)
          [] f.pc = "expr" /\ PeekType(toks, m) \in AssignmentOperators ->
                Call(comments.ps, "assignment_expr",
                     [ expr |-> m.ret, operator |-> operator.v, comments |-> comments.v ],
                     "ternary", <<>>)
          [] f.pc = "expr" -> Return(m, m.ret)
          [] f.pc = "assignment_expr" ->
                Return(m, create_expr_box_no_comment(
                    [ type |-> "Assign", left |-> f.loc.expr, operator |-> f.loc.operator,
                      comments_and_newlines_between_op_and_r |-> f.loc.comments,
                      right |-> m.ret ]))

(* Parser::assignment.                                                     *)
assignment(toks, m) ==
    LET f == Top(m)
        operator == consume_next(toks, m)
        comments == get_newlines_and_comments(toks, operator.ps)
    IN  CASE f.pc = "start" -> Call(m, "expr", <<>>, "ternary", <<>>)
          [] f.pc = "expr" /\ PeekType(toks, m) \in AssignmentOperators ->
                Call(comments.ps, "assignment_expr",
                     [ expr |-> m.ret, operator |-> operator.v, comments |-> comments.v ],
                     "assignment", <<>>)
          [] f.pc = "expr" -> Return(m, m.ret)
          [] f.pc = "assignment_expr" ->
                Return(m, create_expr_box_no_comment(
                    [ type |-> "Assign", left |-> f.loc.expr, operator |-> f.loc.operator,
                      comments_and_newlines_between_op_and_r |-> f.loc.comments,
                      right |-> m.ret ]))

ternary_mutant(toks, m) ==
    LET f == Top(m)
        hook == check_next_consume(toks, m, "Hook")
        after_q == get_newlines_and_comments(toks, hook.ps)
        colon == check_next_consume(toks, m, "Colon")
        after_colon == get_newlines_and_comments(toks, colon.ps)
    IN  CASE f.pc = "start" -> Call(m, "expr", <<>>, "or", <<>>)
          [] f.pc = "expr" /\ hook.v ->
                Call(after_q.ps, "left",
                     [ conditional |-> m.ret, comments_and_newlines_after_q |-> after_q.v ],
                     "ternary", <<>>)
          [] f.pc = "expr" -> Return(m, m.ret)
          [] f.pc = "left" ->
                Call(after_colon.ps, "right",
                     [ conditional |-> f.loc.conditional,
                       comments_and_newlines_after_q |-> f.loc.comments_and_newlines_after_q,
                       left |-> m.ret,
                       comments_and_newlines_after_colon |-> after_colon.v ],
                     "or", <<>>)
          [] f.pc = "right" ->
                Return(m, create_expr_box_no_comment(
                    [ type |-> "Ternary", conditional |-> f.loc.conditional,
                      comments_and_newlines_after_q |-> f.loc.comments_and_newlines_after_q,
                      left |-> f.loc.left,
                      comments_and_newlines_after_colon |->
                          f.loc.comments_and_newlines_after_colon,
                      right |-> m.ret ]))

(* Parser::ternary.                                                        *)
ternary(toks, m) ==
    LET f == Top(m)
        hook == check_next_consume(toks, m, "Hook")
        after_q == get_newlines_and_comments(toks, hook.ps)
        colon == check_next_consume(toks, m, "Colon")
        after_colon == get_newlines_and_comments(toks, colon.ps)
    IN  CASE f.pc = "start" -> Call(m, "expr", <<>>, "or", <<>>)
          [] f.pc = "expr" /\ hook.v ->
                Call(after_q.ps, "left",
                     [ conditional |-> m.ret, comments_and_newlines_after_q |-> after_q.v ],
                     "ternary", <<>>)
          [] f.pc = "expr" -> Return(m, m.ret)
          [] f.pc = "left" ->
                Call(after_colon.ps, "right",
                     [ conditional |-> f.loc.conditional,
                       comments_and_newlines_after_q |-> f.loc.comments_and_newlines_after_q,
                       left |-> m.ret,
                       comments_and_newlines_after_colon |-> after_colon.v ],
                     "ternary", <<>>)
          [] f.pc = "right" ->
                Return(m, create_expr_box_no_comment(
                    [ type |-> "Ternary", conditional |-> f.loc.conditional,
                      comments_and_newlines_after_q |-> f.loc.comments_and_newlines_after_q,
                      left |-> f.loc.left,
                      comments_and_newlines_after_colon |->
                          f.loc.comments_and_newlines_after_colon,
                      right |-> m.ret ]))

(* An Expr::Binary node.                                                   *)
Binary(left, operator, comments, right) ==
    [ type |-> "Binary", left |-> left, operator |-> operator,
      comments_and_newlines_between_op_and_r |-> comments, right |-> right ]

(* The body that the nine binary rules of the ladder share: parse the left *)
(* operand with left_rule; then, once (an `if`) or while the next token is *)
(* one of the operators (a `while let` loop, repeats), take the operator,  *)
(* the trivia after it and a right operand parsed with right_rule, and     *)
(* nest to the left.                                                       *)
BinaryRule(toks, m, operators, left_rule, right_rule, repeats) ==
    LET f == Top(m)
        expr == IF f.pc = "left"
                THEN m.ret
                ELSE create_expr_box_no_comment(
                        Binary(f.loc.left, f.loc.operator, f.loc.comments, m.ret))
        token == consume_next(toks, m)
        comments == get_newlines_and_comments(toks, token.ps)
    IN  CASE f.pc = "start" -> Call(m, "left", <<>>, left_rule, <<>>)
          [] (f.pc = "left" \/ repeats) /\ PeekType(toks, m) \in operators ->
                Call(comments.ps, "right",
                     [ left |-> expr, operator |-> token.v, comments |-> comments.v ],
                     right_rule, <<>>)
          [] OTHER -> Return(m, expr)

(* Parser::or.                                                             *)
or(toks, m) == BinaryRule(toks, m, { "LogicalOr", "OrAlias" }, "and", "equality", FALSE)

(* Parser::and.                                                            *)
and(toks, m) == BinaryRule(toks, m, { "LogicalAnd", "AndAlias" }, "xor", "xor", FALSE)

(* Parser::xor.                                                            *)
xor(toks, m) ==
    BinaryRule(toks, m, { "LogicalXor", "XorAlias" }, "equality", "equality", FALSE)

(* Parser::equality.                                                       *)
equality(toks, m) ==
    BinaryRule(toks, m, { "EqualEqual", "BangEqual" }, "comparison", "comparison", TRUE)

(* Parser::comparison.                                                     *)
comparison(toks, m) ==
    BinaryRule(toks, m, { "Greater", "GreaterEqual", "Less", "LessEqual" },
               "binary", "binary", TRUE)

(* Parser::binary.                                                         *)
binary(toks, m) ==
    BinaryRule(toks, m, { "BitAnd", "BitOr", "BitXor" }, "bitshift", "bitshift", TRUE)

(* Parser::bitshift.                                                       *)
bitshift(toks, m) ==
    BinaryRule(toks, m, { "BitLeft", "BitRight" }, "addition", "addition", TRUE)

addition_mutant(toks, m) ==
    BinaryRule(toks, m, { "Minus", "Plus" }, "unary", "unary", TRUE)

(* Parser::addition.                                                       *)
addition(toks, m) ==
    BinaryRule(toks, m, { "Minus", "Plus" }, "multiplication", "multiplication", TRUE)

(* Parser::multiplication.                                                 *)
multiplication(toks, m) ==
    BinaryRule(toks, m, { "Slash", "Star", "Mod", "ModAlias", "Div" }, "unary", "unary", TRUE)

(* Parser::unary.                                                          *)
unary(toks, m) ==
    LET f == Top(m)
        t == consume_next(toks, m)
        comments == get_newlines_and_comments(toks, t.ps)
    IN  CASE f.pc = "start"
             /\ PeekType(toks, m) \in { "Bang", "Minus", "Plus", "Incrementer", "Decrementer" } ->
                Call(comments.ps, "right",
                     [ operator |-> t.v, comments_and_newlines_between |-> comments.v ],
                     "unary", <<>>)
          [] f.pc = "start" -> Jump(m, "postfix", <<>>)
          [] f.pc = "right" ->
                Return(m, create_expr_box_no_comment(
                    [ type |-> "Unary", operator |-> f.loc.operator,
                      comments_and_newlines_between |-> f.loc.comments_and_newlines_between,
                      right |-> m.ret ]))

(* Parser::postfix.                                                        *)
postfix(toks, m) ==
    LET f == Top(m)
        t == consume_next(toks, m)
        comments == get_newlines_and_comments(toks, t.ps)
    IN  CASE f.pc = "start" -> Call(m, "expr", <<>>, "call", <<>>)
          [] f.pc = "expr" /\ m.do_not_pair = FALSE
             /\ check_next_either(toks, m, "Incrementer", "Decrementer") ->
                Return(comments.ps, create_expr_box_no_comment(
                    [ type |-> "Postfix", operator |-> t.v,
                      comments_and_newlines_between |-> comments.v, expr |-> m.ret ]))
          [] f.pc = "expr" -> Return(m, m.ret)

IndexerTypes ==
    { "LeftBracket", "ArrayIndexer", "MapIndexer", "ListIndexer", "GridIndexer" }

(* Parser::call.                                                           *)
call(toks, m) ==
    LET f == Top(m)
        type == PeekType(toks, m)
        lparen == check_next_consume(toks, m, "LeftParen")
        after_lparen == get_newlines_and_comments(toks, lparen.ps)
        t == consume_next(toks, m)
        before == get_newlines_and_comments(toks, m)
        comma == check_next_consume(toks, m, "Comma")
        rbracket == check_next_consume(toks, m, "RightBracket")
        access_exprs ==
            IF f.pc = "access_expr"
            THEN Append(f.loc.access_exprs, << f.loc.comments, m.ret >>)
            ELSE f.loc.access_exprs
    IN  CASE f.pc = "start" -> Call(m, "expression", <<>>, "primary", <<>>)
          [] f.pc = "expression" /\ lparen.v ->
                Call(after_lparen.ps, "arguments",
                     [ procedure_name |-> m.ret,
                       comments_and_newlines_after_lparen |-> after_lparen.v ],
                     "finish_call",
                     [ end_token_type |-> "RightParen", delimiter_type |-> "Comma" ])
          [] f.pc = "expression" -> Goto(m, "loop", [ expression |-> m.ret ])
          [] f.pc = "arguments" ->
                Goto(m, "loop",
                     [ expression |-> create_expr_box_no_comment(
                         [ type |-> "Call", procedure_name |-> f.loc.procedure_name,
                           arguments |-> m.ret,
                           comments_and_newlines_after_lparen |->
                               f.loc.comments_and_newlines_after_lparen ]) ])
          [] f.pc = "loop" /\ type = "Dot" ->
                IF PeekType(toks, t.ps) = "Identifier"
                THEN Call(t.ps, "instance_variable", f.loc, "expression", <<>>)
                ELSE Goto(t.ps, "loop", f.loc)
          [] f.pc = "instance_variable" ->
                Goto(m, "loop",
                     [ expression |-> create_expr_box_no_comment(
                         [ type |-> "DotAccess", object_name |-> f.loc.expression,
                           instance_variable |-> m.ret ]) ])
          [] f.pc = "loop" /\ type \in IndexerTypes ->
                Goto(t.ps, "access_loop",
                     [ expression |-> f.loc.expression, access_type |-> t.v,
                       access_exprs |-> <<>> ])
          [] f.pc = "loop" -> Return(m, f.loc.expression)
          [] f.pc = "access_loop" /\ HasToken(toks, m) /\ type # "RightBracket" ->
                Call(before.ps, "access_expr",
                     [ expression |-> f.loc.expression, access_type |-> f.loc.access_type,
                       access_exprs |-> f.loc.access_exprs, comments |-> before.v ],
                     "expression", <<>>)
          [] f.pc = "access_expr" /\ comma.v ->
                Goto(comma.ps, "access_loop",
                     [ expression |-> f.loc.expression, access_type |-> f.loc.access_type,
                       access_exprs |-> access_exprs ])
          [] f.pc \in { "access_loop", "access_expr" } ->
                Goto(rbracket.ps, "loop",
                     [ expression |-> create_expr_box_no_comment(
                         [ type |-> "DataStructureAccess", ds_name |-> f.loc.expression,
                           access_type |-> f.loc.access_type,
                           access_exprs |-> access_exprs ]) ])

(* Parser::finish_call.  A pass of its `loop` that does not break pushes   *)
(* (trivia, expression, trivia) and goes on after a delimiter.             *)
finish_call(toks, m) ==
    LET f == Top(m)
        end_token_type == f.loc.end_token_type
        delimiter_type == f.loc.delimiter_type
        after == get_newlines_and_comments(toks, m)
        delimiter == check_next_consume(toks, after.ps, delimiter_type)
        at_loop == IF f.pc = "start" THEN m ELSE delimiter.ps
        arguments == IF f.pc = "start"
                     THEN <<>>
                     ELSE Append(f.loc.arguments, << f.loc.before, m.ret, after.v >>)
        before == get_newlines_and_comments(toks, at_loop)
    IN  IF (f.pc = "start" \/ delimiter.v) /\ ~check_next(toks, at_loop, end_token_type)
        THEN Call(before.ps, "expression",
                  [ end_token_type |-> end_token_type, delimiter_type |-> delimiter_type,
                    arguments |-> arguments, before |-> before.v ],
                  "expression", <<>>)
        ELSE Return(check_next_consume(toks, at_loop, end_token_type).ps, arguments)

(* Parser::finish_call_delimited_expression.                               *)
finish_call_delimited_expression(toks, m) ==
    LET f == Top(m)
        end_token_type == f.loc.end_token_type
        delimiter_type == f.loc.delimiter_type
        delimiter == check_next_consume(toks, m, delimiter_type)
        do_break == delimiter.v = FALSE
        trailing_comment == get_newlines_and_comments(toks, delimiter.ps)
        at_loop == CASE f.pc = "start" -> m
                     [] do_break -> delimiter.ps
                     [] OTHER -> trailing_comment.ps
        arguments ==
            IF f.pc = "start"
            THEN <<>>
            ELSE Append(f.loc.arguments,
                        [ expr |-> m.ret,
                          trailing_comment |-> IF do_break THEN None
                                               ELSE Some(trailing_comment.v) ])
    IN  IF (f.pc = "start" \/ ~do_break) /\ ~check_next(toks, at_loop, end_token_type)
        THEN Call(at_loop, "expr",
                  [ end_token_type |-> end_token_type, delimiter_type |-> delimiter_type,
                    arguments |-> arguments ],
                  "expression", <<>>)
        ELSE Return(check_next_consume(toks, at_loop, end_token_type).ps, arguments)

UnexpectedEnd == Some("Unexpected end.")

(* Parser::primary.  In the Grouping arm, `while check_next_consume(")")   *)
(* == false` has no exit but a ")": once the iterator is exhausted each    *)
(* pass calls expression(), which sets the diagnostic of the function's    *)
(* last lines, consumes nothing and leaves the condition as it was.  When  *)
(* a pass can change nothing any more the parser is hung.                  *)
primary(toks, m) ==
    LET f == Top(m)
        type == PeekType(toks, m)
        t == consume_next(toks, m)
        comments == get_newlines_and_comments(toks, t.ps)
        expressions == Append(f.loc.expressions, m.ret)
        rparen == check_next_consume(toks, m, "RightParen")
        after_rparen == get_newlines_and_comments(toks, rparen.ps)
    IN  CASE f.pc = "start" /\ type \in { "False", "True", "Number", "String" } ->
                LET box == create_comment_expr_box(toks, comments.ps,
                              [ type |-> "Literal", literal_token |-> t.v,
                                comments |-> comments.v ])
                IN  Return(box.ps, box.v)
          [] f.pc = "start" /\ type \in { "NumberStartDot", "NumberEndDot" } ->
                LET box == create_comment_expr_box(toks, comments.ps,
                              [ type |-> type, literal_token |-> t.v,
                                comments |-> comments.v ])
                IN  Return(box.ps, box.v)
          [] f.pc = "start" /\ type = "Identifier" ->
                LET box == create_comment_expr_box(toks, comments.ps,
                              [ type |-> "Identifier", name |-> t.v,
                                comments |-> comments.v ])
                IN  Return(box.ps, box.v)
          [] f.pc = "start" /\ type = "LeftParen" ->
                Call(comments.ps, "expressions",
                     [ expressions |-> <<>>,
                       comments_and_newlines_after_lparen |-> comments.v ],
                     "expression", <<>>)
          [] f.pc = "expressions" /\ rparen.v ->
                LET box == create_comment_expr_box(toks, after_rparen.ps,
                              [ type |-> "Grouping", expressions |-> expressions,
                                comments_and_newlines_after_lparen |->
                                    f.loc.comments_and_newlines_after_lparen,
                                comments_and_newlines_after_rparen |-> after_rparen.v ])
                IN  Return(box.ps, box.v)
          [] f.pc = "expressions" /\ ~HasToken(toks, m) /\ m.success = UnexpectedEnd ->
                [ m EXCEPT !.hung = TRUE ]
          [] f.pc = "expressions" ->
                Call(m, "expressions",
                     [ expressions |-> expressions,
                       comments_and_newlines_after_lparen |->
                           f.loc.comments_and_newlines_after_lparen ],
                     "expression", <<>>)
          [] f.pc = "start" /\ type = "LeftBracket" ->
                Call(comments.ps, "arguments",
                     [ comments_and_newlines_after_lbracket |-> comments.v ],
                     "finish_call",
                     [ end_token_type |-> "RightBracket", delimiter_type |-> "Comma" ])
          [] f.pc = "arguments" ->
                Return(m, create_expr_box_no_comment(
                    [ type |-> "ArrayLiteral",
                      comments_and_newlines_after_lbracket |->
                          f.loc.comments_and_newlines_after_lbracket,
                      arguments |-> m.ret ]))
          [] f.pc = "start" /\ type = "Newline" ->
                Return([ t.ps EXCEPT !.do_not_pair = TRUE ],
                       create_expr_box_no_comment([ type |-> "Newline" ]))
          [] f.pc = "start" /\ type = "<None>" ->
                Return([ m EXCEPT !.success = UnexpectedEnd ],
                       create_expr_box_no_comment([ type |-> "UnexpectedEnd" ]))
          [] f.pc = "start" ->
                LET box == create_comment_expr_box(toks, t.ps,
                              [ type |-> "UnidentifiedAsLiteral", literal_token |-> t.v ])
                IN  Return(IF m.allow_unidentified = FALSE
                           THEN [ box.ps EXCEPT !.success = << "Error parsing", t.v >> ]
                           ELSE box.ps,
                           box.v)

(* The function on top of the stack runs to its next call or its return.   *)
parser_step(toks, m) ==
    LET fn == Top(m).fn
    IN  CASE fn = "statement" -> statement(toks, m)
          [] fn = "macro_statement" -> macro_statement(toks, m)
          [] fn = "define_statement" -> define_statement(toks, m)
          [] fn = "series_var_declaration" -> series_var_declaration(toks, m)
          [] fn = "var_declaration" -> var_declaration(toks, m)
          [] fn = "block" -> block(toks, m)
          [] fn = "if_statement" -> if_statement(toks, m)
          [] fn = "while_with_repeat" -> while_with_repeat(toks, m)
          [] fn = "do_until_statement" -> do_until_statement(toks, m)
          [] fn = "switch_statement" -> switch_statement(toks, m)
          [] fn = "for_statement" -> for_statement(toks, m)
          [] fn = "return_statement" -> return_statement(toks, m)
          [] fn = "break_statement" -> break_statement(toks, m)
          [] fn = "exit_statment" -> exit_statment(toks, m)
          [] fn = "enum_declaration" -> enum_declaration(toks, m)
          [] fn = "expression_statement" -> expression_statement(toks, m)
          [] fn = "expression" -> expression(toks, m)
          [] fn = "assignment" -> assignment(toks, m)
          [] fn = "ternary" -> ternary(toks, m)
          [] fn = "or" -> or(toks, m)
          [] fn = "and" -> and(toks, m)
          [] fn = "xor" -> xor(toks, m)
          [] fn = "equality" -> equality(toks, m)
          [] fn = "comparison" -> comparison(toks, m)
          [] fn = "binary" -> binary(toks, m)
          [] fn = "bitshift" -> bitshift(toks, m)
          [] fn = "addition" -> addition(toks, m)
          [] fn = "multiplication" -> multiplication(toks, m)
          [] fn = "unary" -> unary(toks, m)
          [] fn = "postfix" -> postfix(toks, m)
          [] fn = "call" -> call(toks, m)
          [] fn = "finish_call" -> finish_call(toks, m)
          [] fn = "finish_call_delimited_expression" ->
                finish_call_delimited_expression(toks, m)
          [] fn = "primary" -> primary(toks, m)

(* A rule that has just been called runs at once, up to its own next call  *)
(* or its return, unless a token has been taken since position pos.        *)
RECURSIVE parser_enter(_, _, _)
parser_enter(toks, m, pos) ==
    IF m.stack # <<>> /\ Top(m).pc = "start" /\ m.pos = pos
    THEN parser_enter(toks, parser_step(toks, m), pos)
    ELSE m

(***************************************************************************)
(* The parser as a state machine: Parser::new, then the loop of build_ast  *)
(* and, inside its call of statement(), the steps of the parser.           *)
(***************************************************************************)
(* The parser's fields and calls in progress, as the record the rules work *)
(* on.                                                                     *)
Machine ==
    [ pos |-> p_iter, success |-> success, allow_unidentified |-> allow_unidentified,
      do_not_pair |-> do_not_pair, stack |-> stack, ret |-> ret, hung |-> FALSE ]

StatementRules ==
    { "statement", "macro_statement", "define_statement", "series_var_declaration",
      "var_declaration", "block", "if_statement", "while_with_repeat",
      "do_until_statement", "switch_statement", "for_statement", "return_statement",
      "break_statement", "exit_statment", "enum_declaration", "expression_statement" }

build_ast_branch_mutant(toks, ps) ==
    CASE ~HasToken(toks, ps) -> "exhausted"
      [] PeekType(toks, ps) = "EOF" -> "eof"
      [] OTHER -> "statement"

build_ast_branch_no_eof(toks, ps) ==
    CASE ~HasToken(toks, ps) -> "exhausted"
      [] ps.success # None -> "diagnostic"
      [] OTHER -> "statement"

(* Which way a pass of build_ast's loop goes: the iterator is exhausted,   *)
(* a diagnostic is set (break), the next token is EOF, or a statement is   *)
(* parsed.                                                                 *)
build_ast_branch(toks, ps) ==
    CASE ~HasToken(toks, ps) -> "exhausted"
      [] ps.success # None -> "diagnostic"
      [] PeekType(toks, ps) = "EOF" -> "eof"
      [] OTHER -> "statement"

InLoop(branch) ==
    /\ p_state = "build_ast"
    /\ build_ast_branch(p_tokens, Machine) = branch

(* `while let Some(t) = self.iter.peek()` fails: build_ast returns.        *)
BuildAstExhausted ==
    /\ InLoop("exhausted")
    /\ p_state' = "returned"
    /\ UNCHANGED <<p_tokens, p_iter, ast, success, allow_unidentified, do_not_pair,
                   stack, ret>>
    /\ UNCHANGED scanner_vars

(* `if let Some(_) = self.success { break; }`                              *)
BuildAstBreak ==
    /\ InLoop("diagnostic")
    /\ p_state' = "returned"
    /\ UNCHANGED <<p_tokens, p_iter, ast, success, allow_unidentified, do_not_pair,
                   stack, ret>>
    /\ UNCHANGED scanner_vars

(* TokenType::EOF => push Statement::EOF and break.                        *)
BuildAstEOF ==
    /\ InLoop("eof")
    /\ do_not_pair' = FALSE
    /\ ast' = Append(ast, StatementWrapper([ type |-> "EOF" ], FALSE))
    /\ p_state' = "returned"
    /\ UNCHANGED <<p_tokens, p_iter, success, allow_unidentified, stack, ret>>
    /\ UNCHANGED scanner_vars

(* _ => { let ret = self.statement(); ... }: the call of statement().      *)
BuildAstStatement ==
    /\ InLoop("statement")
    /\ do_not_pair' = FALSE
    /\ stack' = << Frame("statement", <<>>) >>
    /\ p_state' = "statement"
    /\ UNCHANGED <<p_tokens, p_iter, ast, success, allow_unidentified, ret>>
    /\ UNCHANGED scanner_vars

(* statement() has returned to build_ast: self.ast.push(ret).              *)
BuildAstPush ==
    /\ p_state = "statement"
    /\ stack = <<>>
    /\ ast' = Append(ast, ret)
    /\ p_state' = "build_ast"
    /\ UNCHANGED <<p_tokens, p_iter, success, allow_unidentified, do_not_pair, stack, ret>>
    /\ UNCHANGED scanner_vars

ParserBecomes(m) ==
    /\ p_iter' = m.pos
    /\ success' = m.success
    /\ allow_unidentified' = m.allow_unidentified
    /\ do_not_pair' = m.do_not_pair
    /\ stack' = m.stack
    /\ ret' = m.ret
    /\ p_state' = IF m.hung THEN "hung" ELSE p_state
    /\ UNCHANGED <<p_tokens, ast>>
    /\ UNCHANGED scanner_vars

(* A step of a rule that parses a statement.                               *)
ParseStatement ==
    /\ p_state = "statement"
    /\ stack # <<>>
    /\ Top(Machine).fn \in StatementRules
    /\ ParserBecomes(parser_enter(p_tokens, parser_step(p_tokens, Machine), p_iter))

(* A step of a rule that parses an expression.                             *)
ParseExpression ==
    /\ p_state = "statement"
    /\ stack # <<>>
    /\ Top(Machine).fn \notin StatementRules
    /\ ParserBecomes(parser_enter(p_tokens, parser_step(p_tokens, Machine), p_iter))

(* Bounds of the parser's inputs.                                          *)
MaxTokens == 5

(* The token types the parser's inputs are drawn from (EOF apart).         *)
ParserAlphabet ==
    { "Identifier", "LeftParen", "RightParen", "Star", "Hook" }

(* Parser::new on the tokens of a scan: at most MaxTokens tokens, and the  *)
(* EOF token that lex_input always appends last.                           *)
ParserInit ==
    /\ \E n \in 0..MaxTokens :
          \E body \in [ 1..n -> ParserAlphabet ] : p_tokens = body \o << "EOF" >>
    /\ p_iter = 1
    /\ ast = <<>>
    /\ success = None
    /\ allow_unidentified = FALSE
    /\ do_not_pair = FALSE
    /\ stack = <<>>
    /\ ret = <<>>
    /\ p_state = "build_ast"
    /\ input = <<>>
    /\ iter = ScannerNew.iter
    /\ tokens = ScannerNew.tokens
    /\ line_number = ScannerNew.line_number
    /\ column_number = ScannerNew.column_number
    /\ result = "Ok"

ParserNext ==
    \/ BuildAstExhausted
    \/ BuildAstBreak
    \/ BuildAstEOF
    \/ BuildAstStatement
    \/ BuildAstPush
    \/ ParseStatement
    \/ ParseExpression

ParserSpec == ParserInit /\ [][ParserNext]_vars

(***************************************************************************)
(* Claims about build_ast.                                                 *)
(***************************************************************************)
IsPrefix(s, t) == Len(s) <= Len(t) /\ SubSeq(t, 1, Len(s)) = s

(* C10: build_ast starts no new top-level statement once the diagnostic    *)
(* slot is Some.  At the head of its loop with a diagnostic set, its next  *)
(* step is to return, with ast as it is; no step takes a statement out of  *)
(* ast or changes one; a statement that statement() returns is pushed,     *)
(* whether or not a diagnostic was recorded in it; so when build_ast       *)
(* returns with a diagnostic, the last element of ast is the statement in  *)
(* which it was recorded.                                                  *)
C10_StopsAfterDiagnosticStatement ==
    [][ /\ (p_state = "build_ast" /\ success # None)
            => (p_state' = "returned" /\ ast' = ast)
        /\ IsPrefix(ast, ast')
        /\ (p_state = "statement" /\ stack = <<>>)
            => (ast' = Append(ast, ret) /\ p_state' = "build_ast")
        /\ (p_state' = "returned" /\ success' # None)
            => (ast' # <<>> /\ ast'[Len(ast')].statement.type # "EOF")
      ]_vars

(* build_ast has returned on a diagnostic with tokens left to parse, the   *)
(* statement that recorded it pushed: "( a ) * )" before EOF.              *)
C10_Witness ==
    /\ p_state = "returned"
    /\ success # None
    /\ p_iter <= Len(p_tokens)
    /\ Len(ast) = 1
    /\ ast[1].statement.type = "ExpresssionStatement"

(***************************************************************************)
(* The nodes of a forest, for the claims about its shape.  Every node is   *)
(* listed once, as [type, held]: its variant and the tokens it stores      *)
(* itself (its own token, operator and trivia fields), without those of    *)
(* its children.                                                           *)
(***************************************************************************)
Node(type, held) == << [ type |-> type, held |-> held ] >>

RECURSIVE NodesOfExpr(_), NodesOfExprs(_), NodesOfArguments(_), NodesOfAccessExprs(_)
NodesOfExprs(boxes) ==
    IF boxes = <<>> THEN <<>>
    ELSE NodesOfExpr(Head(boxes)) \o NodesOfExprs(Tail(boxes))

(* Arguments: (trivia, expression, trivia); the trivia belong to the node  *)
(* that owns the list and are listed under "Argument".                     *)
NodesOfArguments(arguments) ==
    IF arguments = <<>> THEN <<>>
    ELSE Node("Argument", Head(arguments)[1] \o Head(arguments)[3])
         \o NodesOfExpr(Head(arguments)[2]) \o NodesOfArguments(Tail(arguments))

NodesOfAccessExprs(access_exprs) ==
    IF access_exprs = <<>> THEN <<>>
    ELSE Node("AccessExpr", Head(access_exprs)[1])
         \o NodesOfExpr(Head(access_exprs)[2]) \o NodesOfAccessExprs(Tail(access_exprs))

NodesOfExpr(box) ==
    LET e == box.expr
        t == box.trivia
    IN  CASE e.type \in { "Literal", "NumberStartDot", "NumberEndDot" } ->
                Node(e.type, << e.literal_token >> \o e.comments \o t)
          [] e.type = "Identifier" -> Node(e.type, << e.name >> \o e.comments \o t)
          [] e.type = "UnidentifiedAsLiteral" -> Node(e.type, << e.literal_token >> \o t)
          [] e.type \in { "Newline", "UnexpectedEnd" } -> Node(e.type, t)
          [] e.type = "Grouping" ->
                Node(e.type, e.comments_and_newlines_after_lparen
                             \o e.comments_and_newlines_after_rparen \o t)
                \o NodesOfExprs(e.expressions)
          [] e.type = "ArrayLiteral" ->
                Node(e.type, e.comments_and_newlines_after_lbracket \o t)
                \o NodesOfArguments(e.arguments)
          [] e.type \in { "Assign", "Binary" } ->
                Node(e.type, << e.operator >> \o e.comments_and_newlines_between_op_and_r \o t)
                \o NodesOfExpr(e.left) \o NodesOfExpr(e.right)
          [] e.type = "Ternary" ->
                Node(e.type, e.comments_and_newlines_after_q
                             \o e.comments_and_newlines_after_colon \o t)
                \o NodesOfExpr(e.conditional) \o NodesOfExpr(e.left) \o NodesOfExpr(e.right)
          [] e.type = "Unary" ->
                Node(e.type, << e.operator >> \o e.comments_and_newlines_between \o t)
                \o NodesOfExpr(e.right)
          [] e.type = "Postfix" ->
                Node(e.type, << e.operator >> \o e.comments_and_newlines_between \o t)
                \o NodesOfExpr(e.expr)
          [] e.type = "Call" ->
                Node(e.type, e.comments_and_newlines_after_lparen \o t)
                \o NodesOfExpr(e.procedure_name) \o NodesOfArguments(e.arguments)
          [] e.type = "DotAccess" ->
                Node(e.type, t) \o NodesOfExpr(e.object_name)
                \o NodesOfExpr(e.instance_variable)
          [] e.type = "DataStructureAccess" ->
                Node(e.type, << e.access_type >> \o t)
                \o NodesOfExpr(e.ds_name) \o NodesOfAccessExprs(e.access_exprs)

NodesOfOptionalExpr(option) ==
    IF option = None THEN <<>> ELSE NodesOfExpr(option[1])

RECURSIVE NodesOfVarDecls(_), NodesOfMembers(_)
NodesOfVarDecls(var_decl) ==
    IF var_decl = <<>> THEN <<>>
    ELSE LET d == Head(var_decl)
         IN  NodesOfExpr(d.var_expr)
             \o (IF d.assignment = None THEN <<>>
                 ELSE Node("VarDecl", d.assignment[1][1]) \o NodesOfExpr(d.assignment[1][2]))
             \o NodesOfVarDecls(Tail(var_decl))

NodesOfMembers(members) ==
    IF members = <<>> THEN <<>>
    ELSE LET d == Head(members)
         IN  NodesOfExpr(d.expr)
             \o (IF d.trailing_comment = None THEN <<>>
                 ELSE Node("DelimitedLine", d.trailing_comment[1]))
             \o NodesOfMembers(Tail(members))

RECURSIVE NodesOfStatement(_), NodesOfStatements(_), NodesOfCases(_)
NodesOfStatements(statements) ==
    IF statements = <<>> THEN <<>>
    ELSE NodesOfStatement(Head(statements)) \o NodesOfStatements(Tail(statements))

NodesOfCases(cases) ==
    IF cases = <<>> THEN <<>>
    ELSE LET c == Head(cases)
         IN  Node("Case", c.comments_after_case \o c.comments_after_colon)
             \o (IF Len(c.case_type) = 2 THEN NodesOfExpr(c.case_type[2]) ELSE <<>>)
             \o NodesOfStatements(c.statements) \o NodesOfCases(Tail(cases))

NodesOfStatement(wrapper) ==
    LET s == wrapper.statement
    IN  CASE s.type = "Comment" -> Node(s.type, << s.comment >>)
          [] s.type = "MultilineComment" -> Node(s.type, << s.multiline_comment >>)
          [] s.type \in { "RegionBegin", "RegionEnd" } -> Node(s.type, s.multi_word_name)
          [] s.type = "Macro" -> Node(s.type, s.macro_body)
          [] s.type = "Define" ->
                Node(s.type, <<>>) \o NodesOfExpr(s.script_name) \o NodesOfStatements(s.body)
          [] s.type = "VariableDeclList" -> Node(s.type, <<>>) \o NodesOfVarDecls(s.var_decl)
          [] s.type = "Block" ->
                Node(s.type, s.comments_after_lbrace) \o NodesOfStatements(s.statements)
          [] s.type = "If" ->
                Node(s.type, s.comments_between) \o NodesOfExpr(s.condition)
                \o NodesOfStatement(s.then_branch)
                \o (IF s.else_branch = None THEN <<>> ELSE NodesOfStatement(s.else_branch[1]))
          [] s.type = "WhileWithRepeat" ->
                Node(s.type, << s.token >>) \o NodesOfExpr(s.condition)
                \o NodesOfStatement(s.body)
          [] s.type = "DoUntil" ->
                Node(s.type, s.comments_between) \o NodesOfStatement(s.body)
                \o NodesOfExpr(s.condition)
          [] s.type = "Switch" ->
                Node(s.type, s.comments_after_lbrace) \o NodesOfExpr(s.condition)
                \o NodesOfCases(s.cases)
          [] s.type = "For" ->
                Node(s.type, <<>>)
                \o (IF s.initializer = None THEN <<>> ELSE NodesOfStatement(s.initializer[1]))
                \o NodesOfOptionalExpr(s.condition) \o NodesOfOptionalExpr(s.increment)
                \o NodesOfStatement(s.body)
          [] s.type = "Return" -> Node(s.type, <<>>) \o NodesOfOptionalExpr(s.expression)
          [] s.type \in { "Break", "Exit", "EOF" } -> Node(s.type, <<>>)
          [] s.type = "EnumDeclaration" ->
                Node(s.type, s.comments_after_lbrace) \o NodesOfExpr(s.name)
                \o NodesOfMembers(s.members)
          [] s.type = "ExpresssionStatement" -> Node(s.type, <<>>) \o NodesOfExpr(s.expression)

NodeTypes(nodes) == { nodes[i].type : i \in 1..Len(nodes) }

(***************************************************************************)
(* C11: the diagnostic slot is write-once: after success first becomes     *)
(* Some(m) it holds the same message m in every later state of the parse,  *)
(* also when further unrecognized tokens or the end of the token sequence  *)
(* are reached inside the same statement.                                  *)
(***************************************************************************)
C11_DiagnosticWriteOnce ==
    [][ success # None => success' = success ]_vars

(***************************************************************************)
(* C12: build_ast terminates on every finite token sequence that ends with *)
(* an EOF token, unclosed '(' included: the parse never reaches a state    *)
(* in which the token sequence is exhausted and the parser keeps looping.  *)
(***************************************************************************)
C12_NeverLoopsForever ==
    p_state # "hung"

(***************************************************************************)
(* A second specification of the parser, on inputs of more token types     *)
(* than ParserSpec affords: the token vectors are drawn from families,     *)
(* each a set of runs over the few token types one construct needs.        *)
(***************************************************************************)

(* Parser::new(tokens): the state of a parser made for a token vector.     *)
ParserNew(toks) ==
    /\ p_tokens = toks
    /\ p_iter = 1
    /\ ast = <<>>
    /\ success = None
    /\ allow_unidentified = FALSE
    /\ do_not_pair = FALSE
    /\ stack = <<>>
    /\ ret = <<>>
    /\ p_state = "build_ast"
    /\ input = <<>>
    /\ iter = ScannerNew.iter
    /\ tokens = ScannerNew.tokens
    /\ line_number = ScannerNew.line_number
    /\ column_number = ScannerNew.column_number
    /\ result = "Ok"

(* A token vector of at most n tokens of the given types, and the EOF      *)
(* token of a scan.                                                        *)
ParserNewOver(alphabet, n) ==
    \E k \in 0..n : \E body \in [ 1..k -> alphabet ] : ParserNew(body \o << "EOF" >>)

(* Groupings and products: the inputs that reach every branch of           *)
(* build_ast's loop.                                                       *)
GroupingAlphabet == { "Identifier", "LeftParen", "RightParen", "Star" }

(* Parser::new takes any vector: also one without tokens.                  *)
NoTokens == ParserNew(<<>>)

(* Chains `a op b op c ...` of binary and assignment operators between     *)
(* identifiers.                                                            *)
MaxChain == 2

AdditiveOperators == { "Minus", "Plus" }

MultiplicativeOperators == { "Slash", "Star" }

ChainOperators ==
    AdditiveOperators \cup MultiplicativeOperators \cup AssignmentOperators

ChainTokens(ops) ==
    [ i \in 1..(2 * Len(ops) + 1) |-> IF i % 2 = 1 THEN "Identifier" ELSE ops[i \div 2] ]
    \o << "EOF" >>

OperatorChain ==
    \E k \in 0..MaxChain : \E ops \in [ 1..k -> ChainOperators ] : ParserNew(ChainTokens(ops))

GrammarInit ==
    \/ NoTokens
    \/ ParserNewOver(GroupingAlphabet, MaxTokens)
    \/ OperatorChain

GrammarSpec == GrammarInit /\ [][ParserNext]_vars

(***************************************************************************)
(* C13: parsing empty input (the token vector of the empty string, i.e.    *)
(* only EOF, or a vector without tokens) yields an UnexpectedEnd           *)
(* expression node in the forest and a recorded diagnostic.                *)
(***************************************************************************)
EmptyInput == p_tokens \in { <<>>, << "EOF" >> }

IdentifierBox(i) ==
    [ expr |-> [ type |-> "Identifier", name |-> i, comments |-> <<>> ], trivia |-> <<>> ]

BinaryBox(left, operator, right) ==
    [ expr |-> [ type |-> "Binary", left |-> left, operator |-> operator,
                 comments_and_newlines_between_op_and_r |-> <<>>, right |-> right ],
      trivia |-> <<>> ]

AssignBox(left, operator, right) ==
    [ expr |-> [ type |-> "Assign", left |-> left, operator |-> operator,
                 comments_and_newlines_between_op_and_r |-> <<>>, right |-> right ],
      trivia |-> <<>> ]

(* The forest of one expression statement without semicolon, and EOF.      *)
ForestOfExpression(box) ==
    << [ statement |-> [ type |-> "ExpresssionStatement", expression |-> box ],
         has_semicolon |-> FALSE ],
       [ statement |-> [ type |-> "EOF" ], has_semicolon |-> FALSE ] >>

(* The operators of a chain `a op b op c ...` EOF, and whether a token     *)
(* vector is such a chain of operators of the given types.                 *)
OperatorsOfChain(toks) ==
    [ i \in 1..((Len(toks) - 2) \div 2) |-> toks[2 * i] ]

IsChainOf(toks, operators) ==
    /\ Len(toks) >= 2
    /\ toks = ChainTokens(OperatorsOfChain(toks))
    /\ \A i \in 1..((Len(toks) - 2) \div 2) : toks[2 * i] \in operators

(* k operators nested to the left: ((a op b) op c) ...                     *)
RECURSIVE LeftNested(_)
LeftNested(k) ==
    IF k = 0 THEN IdentifierBox(1)
    ELSE BinaryBox(LeftNested(k - 1), 2 * k, IdentifierBox(2 * k + 1))

(* The operators i..k nested to the right: a op (b op (c ...))             *)
RECURSIVE RightNested(_, _)
RightNested(i, k) ==
    IF i > k THEN IdentifierBox(2 * k + 1)
    ELSE AssignBox(IdentifierBox(2 * i - 1), 2 * i, RightNested(i + 1, k))

(***************************************************************************)
(* C14: multiplicative operators bind tighter than additive ones:          *)
(* `a + b * c` parses to Binary(`+`, a, Binary(`*`, b, c)) and             *)
(* `a * b + c` to Binary(`+`, Binary(`*`, a, b), c); a chain within one of *)
(* the two tiers (`a - b - c`) nests to the left.                          *)
(***************************************************************************)
C14_MultiplicationBindsTighter ==
    LET ops == OperatorsOfChain(p_tokens)
        n == Len(ops)
    IN  p_state = "returned" =>
          /\ (/\ IsChainOf(p_tokens, AdditiveOperators \cup MultiplicativeOperators)
              /\ n = 2 /\ ops[1] \in AdditiveOperators /\ ops[2] \in MultiplicativeOperators)
             => ast = ForestOfExpression(
                        BinaryBox(IdentifierBox(1), 2,
                                  BinaryBox(IdentifierBox(3), 4, IdentifierBox(5))))
          /\ (/\ IsChainOf(p_tokens, AdditiveOperators \cup MultiplicativeOperators)
              /\ n = 2 /\ ops[1] \in MultiplicativeOperators /\ ops[2] \in AdditiveOperators)
             => ast = ForestOfExpression(
                        BinaryBox(BinaryBox(IdentifierBox(1), 2, IdentifierBox(3)),
                                  4, IdentifierBox(5)))
          /\ (IsChainOf(p_tokens, AdditiveOperators)
              \/ IsChainOf(p_tokens, MultiplicativeOperators))
             => (success = None /\ ast = ForestOfExpression(LeftNested(n)))

C14_Witness ==
    /\ p_state = "returned"
    /\ p_tokens = ChainTokens(<< "Plus", "Star" >>)
    /\ ast[1].statement.expression.expr.right.expr.type = "Binary"

(***************************************************************************)
(* C15: assignment is right-associative: a chain `a op1 b op2 c` of        *)
(* assignment operators parses to Assign(a, Assign(b, c)), each operator   *)
(* token stored in the Assign node it heads.                               *)
(***************************************************************************)
C15_AssignmentNestsRight ==
    (p_state = "returned" /\ IsChainOf(p_tokens, AssignmentOperators)) =>
        /\ success = None
        /\ ast = ForestOfExpression(RightNested(1, Len(OperatorsOfChain(p_tokens))))

C15_Witness ==
    /\ p_state = "returned"
    /\ p_tokens = ChainTokens(<< "Equal", "PlusEquals" >>)
    /\ ast[1].statement.expression.expr.right.expr.type = "Assign"
    /\ ast[1].statement.expression.expr.right.expr.operator = 4

(***************************************************************************)
(* A third specification of the parser, on programs: one statement or two  *)
(* of each form that Parser::statement dispatches on, with a run of        *)
(* comments and newlines at any one place between its tokens.              *)
(***************************************************************************)
MaxTrivia == 2

SamplePrograms ==
    { << "Identifier", "Equal", "Identifier", "Semicolon", "Incrementer", "Identifier" >>,
      << "Identifier", "Equal", "Identifier", "Identifier", "Equal", "Identifier" >>,
      << "Identifier", "Equal", "Identifier", "Hook", "Identifier", "Colon", "Identifier" >>,
      << "Identifier", "Equal", "Identifier", "LogicalOr", "Identifier", "LogicalAnd",
         "Identifier" >>,
      << "Identifier", "Equal", "LeftBracket", "Identifier", "RightBracket" >>,
      << "Identifier", "Incrementer" >>,
      << "Identifier", "LeftParen", "Identifier", "Comma", "Identifier", "RightParen" >>,
      << "Identifier", "LeftBracket", "Number", "RightBracket", "Equal", "Identifier" >>,
      << "Identifier", "Dot", "Identifier", "Equal", "Identifier" >>,
      << "If", "Identifier", "LeftBrace", "RightBrace", "Else", "LeftBrace", "RightBrace" >>,
      << "Switch", "Identifier", "LeftBrace", "Case", "Number", "Colon", "Break",
         "RightBrace" >>,
      << "Switch", "Identifier", "LeftBrace", "DefaultCase", "Colon", "Exit", "RightBrace" >>,
      << "Switch", "Incrementer", "Identifier", "LeftBrace", "RightBrace" >>,
      << "While", "Identifier", "LeftBrace", "RightBrace" >>,
      << "Do", "LeftBrace", "RightBrace", "Until", "Identifier" >>,
      << "For", "LeftParen", "Semicolon", "Semicolon", "RightParen", "LeftBrace",
         "RightBrace" >>,
      << "Return", "Identifier", "Semicolon" >>,
      << "Var", "Identifier", "Equal", "Number", "Comma", "Identifier", "Semicolon" >>,
      << "Enum", "Identifier", "LeftBrace", "Identifier", "Comma", "Identifier",
         "RightBrace" >>,
      << "Macro", "Identifier", "Number" >>,
      << "RegionBegin", "Identifier" >> }

(* The tokens of a program with a run of trivia after its first `at`       *)
(* tokens, and the EOF token of a scan.                                    *)
WithTrivia(program, at, run) ==
    SubSeq(program, 1, at) \o run \o SubSeq(program, at + 1, Len(program)) \o << "EOF" >>

ProgramWithTrivia ==
    \E program \in SamplePrograms : \E at \in 0..Len(program) :
        \E k \in 0..MaxTrivia : \E run \in [ 1..k -> TriviaTypes ] :
            ParserNew(WithTrivia(program, at, run))

ProgramInit ==
    \/ ParserNewOver(GroupingAlphabet, MaxTokens)
    \/ ProgramWithTrivia

ProgramSpec == ProgramInit /\ [][ParserNext]_vars

(***************************************************************************)
(* C16: trivia conservation: when build_ast returns, each Comment,         *)
(* MultilineComment and Newline token that the parser consumed is held by  *)
(* exactly one node of the forest; none is consumed and discarded and none *)
(* is stored twice.  (An Expr::Newline node stores no token: the Newline   *)
(* tokens that no node stores are as many as the Newline nodes.)           *)
(***************************************************************************)
RECURSIVE HeldBy(_)
HeldBy(nodes) ==
    IF nodes = <<>> THEN <<>> ELSE Head(nodes).held \o HeldBy(Tail(nodes))

Count(seq, x) == Cardinality({ j \in 1..Len(seq) : seq[j] = x })

ConsumedTrivia == { i \in 1..(p_iter - 1) : p_tokens[i] \in TriviaTypes }

C16_TriviaConservation ==
    p_state = "returned" =>
        LET nodes == NodesOfStatements(ast)
            held == HeldBy(nodes)
            unheld == { i \in ConsumedTrivia : Count(held, i) = 0 }
        IN  /\ \A i \in ConsumedTrivia : Count(held, i) <= 1
            /\ \A i \in unheld : p_tokens[i] = "Newline"
            /\ Cardinality(unheld)
                 = Cardinality({ j \in 1..Len(nodes) : nodes[j].type = "Newline" })

C16_Witness ==
    /\ p_state = "returned"
    /\ \E i \in ConsumedTrivia : \E j \in ConsumedTrivia :
          /\ p_tokens[i] = "Comment"
          /\ p_tokens[j] = "Newline"
          /\ Count(HeldBy(NodesOfStatements(ast)), i) = 1
          /\ Count(HeldBy(NodesOfStatements(ast)), j) = 1
    /\ "Switch" \in NodeTypes(NodesOfStatements(ast))

(***************************************************************************)
(* C17: trailing trivia attaches backwards: when a comment (and the        *)
(* newline after it) follows the last token of an expression statement and *)
(* precedes the first token of the next statement, the comment is stored   *)
(* in the trivia of the earlier statement's tree, never in the later       *)
(* statement's tree and never as a separate statement between them.        *)
(***************************************************************************)
(* The statements of the sample programs of two statements: `x = a` or     *)
(* `x = a;`, and then `y = b` or `++y`.                                    *)
FirstStatements ==
    { << "Identifier", "Equal", "Identifier" >>,
      << "Identifier", "Equal", "Identifier", "Semicolon" >> }

SecondStatements ==
    { << "Identifier", "Equal", "Identifier" >>, << "Incrementer", "Identifier" >> }

C17_TrailingTriviaAttachesBackwards ==
    p_state = "returned" =>
        \A first \in FirstStatements :
            LET comment == Len(first) + 1
                next == RunEnd(p_tokens, comment, TriviaTypes)
            IN  (/\ IsPrefix(first, p_tokens)
                 /\ p_tokens[comment] \in { "Comment", "MultilineComment" }
                 /\ \E second \in SecondStatements :
                        SubSeq(p_tokens, next, Len(p_tokens)) = second \o << "EOF" >>)
                => /\ ast[1].statement.type = "ExpresssionStatement"
                   /\ Count(HeldBy(NodesOfStatement(ast[1])), comment) = 1
                   /\ Count(HeldBy(NodesOfStatements(Tail(ast))), comment) = 0
                   /\ ast[2].statement.type \notin { "Comment", "MultilineComment" }

(***************************************************************************)
(* C18: for every token sequence that is a syntactically valid program     *)
(* (here: a sample program, without trivia, and EOF), build_ast records no *)
(* diagnostic and every token before EOF is consumed into the statement it *)
(* belongs to, none parsed as a stray error-recovery literal.              *)
(***************************************************************************)
(* The number of statements of a sample program.                           *)
StatementsOf(program) ==
    IF \E first \in FirstStatements : \E second \in SecondStatements :
          program = first \o second
    THEN 2 ELSE 1

C18_ValidProgramsParseClean ==
    p_state = "returned" =>
        \A program \in SamplePrograms :
            p_tokens = program \o << "EOF" >> =>
                /\ success = None
                /\ p_iter = Len(p_tokens)
                /\ Len(ast) = StatementsOf(program) + 1
                /\ ast[Len(ast)].statement.type = "EOF"
                /\ NodeTypes(NodesOfStatements(ast))
                     \cap { "UnidentifiedAsLiteral", "UnexpectedEnd" } = {}

(***************************************************************************)
(* C19: while a call of expression() is in progress, an unrecognized token *)
(* in primary position is wrapped as UnidentifiedAsLiteral without setting *)
(* the diagnostic, also in the part of the expression parsed after a       *)
(* nested expression() call has returned: the "Error parsing" diagnostic   *)
(* is set only outside any expression() call.                              *)
(***************************************************************************)
InExpression == \E i \in 1..Len(stack) : stack[i].fn = "expression"

C19_NoDiagnosticInsideExpression ==
    [][ (success' # success /\ success' # None /\ success'[1] = "Error parsing")
            => ~InExpression ]_vars

(***************************************************************************)
(* C20: a `++` or `--` token that immediately follows a Newline token      *)
(* consumed in primary position is not attached to that Newline as a       *)
(* Postfix operator; it is left unconsumed and parsed as a prefix operator *)
(* of the next statement.  (A consumed Newline that no node stores is one  *)
(* that primary took as Expr::Newline.)                                    *)
(***************************************************************************)
OperatorOf(nodes, type, operator) ==
    \E j \in 1..Len(nodes) :
        nodes[j].type = type /\ nodes[j].held # <<>> /\ nodes[j].held[1] = operator

C20_NoPostfixAfterNewline ==
    p_state = "returned" =>
        LET nodes == NodesOfStatements(ast)
        IN  \A i \in ConsumedTrivia :
                (/\ p_tokens[i] = "Newline"
                 /\ p_tokens[i + 1] \in { "Incrementer", "Decrementer" }
                 /\ Count(HeldBy(nodes), i) = 0)
                => /\ ~OperatorOf(nodes, "Postfix", i + 1)
                   /\ success = None => OperatorOf(nodes, "Unary", i + 1)

(***************************************************************************)
(* A fourth specification of the parser, on the inputs of the rules that   *)
(* the other three do not reach: chains of the operators of every tier of  *)
(* the expression ladder, chains of `?` and `:`, macro bodies, and blocks  *)
(* that hold a switch or a blank line.                                     *)
(***************************************************************************)

(* The tiers of the ladder, loosest first: or, and, xor, equality,         *)
(* comparison, binary, bitshift, addition, multiplication.                 *)
LadderTiers ==
    << { "LogicalOr", "OrAlias" },
       { "LogicalAnd", "AndAlias" },
       { "LogicalXor", "XorAlias" },
       { "EqualEqual", "BangEqual" },
       { "Greater", "GreaterEqual", "Less", "LessEqual" },
       { "BitAnd", "BitOr", "BitXor" },
       { "BitLeft", "BitRight" },
       { "Minus", "Plus" },
       { "Slash", "Star", "Mod", "ModAlias", "Div" } >>

(* The operators the chains are made of: the logical ones, and one of each *)
(* other tier.                                                             *)
LadderOperators ==
    { "LogicalOr", "OrAlias", "LogicalAnd", "AndAlias", "LogicalXor", "XorAlias",
      "EqualEqual", "Less", "BitAnd", "BitLeft", "Plus", "Star" }

LadderChain ==
    \E k \in 0..MaxChain : \E ops \in [ 1..k -> LadderOperators ] : ParserNew(ChainTokens(ops))

(* Chains `a ? b : c ? d : e` of hooks and colons between identifiers.     *)
MaxTernary == 4

TernaryChain ==
    \E k \in 0..MaxTernary : \E ops \in [ 1..k -> { "Hook", "Colon" } ] :
        ParserNew(ChainTokens(ops))

(* Blocks `{ ... }` of identifiers, `++`, `;` and newlines.                 *)
MaxBody == 5

BodyAlphabet == { "Identifier", "Incrementer", "Semicolon", "Newline" }

BlockBody ==
    \E k \in 0..MaxBody : \E body \in [ 1..k -> BodyAlphabet ] :
        ParserNew(<< "LeftBrace" >> \o body \o << "RightBrace", "EOF" >>)

(* A switch, alone or as the one statement of a block, with a newline or   *)
(* not before its closing brace, and an identifier or not after it all.    *)
SwitchCases ==
    { << >>,
      << "Case", "Number", "Colon", "Identifier" >>,
      << "DefaultCase", "Colon", "Identifier" >>,
      << "Case", "Number", "Colon", "Identifier", "DefaultCase", "Colon", "Identifier" >> }

SwitchOf(cases, gap) ==
    << "Switch", "Identifier", "LeftBrace" >> \o cases
        \o (IF gap THEN << "Newline" >> ELSE << >>) \o << "RightBrace" >>

SwitchProgram(cases, gap, nested, followed) ==
    (IF nested THEN << "LeftBrace" >> \o SwitchOf(cases, gap) \o << "RightBrace" >>
               ELSE SwitchOf(cases, gap))
        \o (IF followed THEN << "Identifier" >> ELSE << >>) \o << "EOF" >>

SwitchInBlock ==
    \E cases \in SwitchCases : \E gap, nested, followed \in BOOLEAN :
        ParserNew(SwitchProgram(cases, gap, nested, followed))

(* A macro followed by identifiers, backslashes and newlines.               *)
MaxMacro == 4

MacroAlphabet == { "Identifier", "Backslash", "Newline" }

MacroRun ==
    \E k \in 0..MaxMacro : \E body \in [ 1..k -> MacroAlphabet ] :
        ParserNew(<< "Macro" >> \o body \o << "EOF" >>)

RuleInit ==
    \/ ParserNewOver(GroupingAlphabet, MaxTokens)
    \/ LadderChain
    \/ TernaryChain
    \/ BlockBody
    \/ SwitchInBlock
    \/ MacroRun

RuleSpec == RuleInit /\ [][ParserNext]_vars

(* The tier of an operator of the ladder.                                  *)
TierOf(operator) == CHOOSE i \in 1..Len(LadderTiers) : operator \in LadderTiers[i]

(***************************************************************************)
(* C21: each binary tier of the ladder parses both of its operands at the  *)
(* next-higher tier: in `a op1 b op2 c` an operator of a tighter tier      *)
(* keeps its operands, so that `a || b && c` is consumed by one            *)
(* expression() call and yields Binary(`||`, a, Binary(`&&`, b, c)).       *)
(***************************************************************************)
C21_OperandsAtNextTier ==
    LET ops == OperatorsOfChain(p_tokens)
    IN  (p_state = "returned" /\ IsChainOf(p_tokens, LadderOperators) /\ Len(ops) = 2) =>
          /\ TierOf(ops[1]) < TierOf(ops[2])
             => ast = ForestOfExpression(
                        BinaryBox(IdentifierBox(1), 2,
                                  BinaryBox(IdentifierBox(3), 4, IdentifierBox(5))))
          /\ TierOf(ops[1]) > TierOf(ops[2])
             => ast = ForestOfExpression(
                        BinaryBox(BinaryBox(IdentifierBox(1), 2, IdentifierBox(3)),
                                  4, IdentifierBox(5)))

(***************************************************************************)
(* C22: a chain of two or more operators of one tier (`a && b && c`,       *)
(* `a || b || c`, `a ^^ b ^^ c` or their keyword aliases, as for the other *)
(* tiers) is consumed entirely by one expression() call and yields a       *)
(* single Binary tree nested to the left.                                  *)
(***************************************************************************)
C22_SameTierChainNestsLeft ==
    p_state = "returned" =>
        \A i \in 1..Len(LadderTiers) :
            IsChainOf(p_tokens, LadderTiers[i])
            => /\ success = None
               /\ ast = ForestOfExpression(LeftNested(Len(OperatorsOfChain(p_tokens))))

(***************************************************************************)
(* C23: the ternary operator is right-associative and recursive in both    *)
(* branches: `a ? b : c ? d : e` parses to Ternary(a, b, Ternary(c, d, e)) *)
(* and `a ? b ? c : d : e` to Ternary(a, Ternary(b, c, d), e), each `?`    *)
(* taking exactly one `:`.                                                 *)
(***************************************************************************)
TernaryBox(conditional, left, right) ==
    [ expr |-> [ type |-> "Ternary", conditional |-> conditional,
                 comments_and_newlines_after_q |-> <<>>, left |-> left,
                 comments_and_newlines_after_colon |-> <<>>, right |-> right ],
      trivia |-> <<>> ]

InBlock ==
    /\ Len(p_tokens) >= 3
    /\ p_tokens[1] = "LeftBrace"
    /\ p_tokens[Len(p_tokens) - 1] = "RightBrace"
    /\ \A i \in 2..(Len(p_tokens) - 2) : p_tokens[i] \in BodyAlphabet

C24_PostfixPairsInEveryStatement ==
    (p_state = "returned" /\ InBlock) =>
        LET nodes == NodesOfStatements(ast)
        IN  \A i \in 2..(Len(p_tokens) - 3) :
                (/\ p_tokens[i] = "Identifier"
                 /\ p_tokens[i + 1] \in { "Incrementer", "Decrementer" })
                => OperatorOf(nodes, "Postfix", i + 1)

(***************************************************************************)
(* C25: switch_statement consumes exactly one closing RightBrace, its own. *)
(* For a switch that is the one statement of a block, as in                *)
(* `{ switch x { case 1: a } } b`, the block's RightBrace closes the       *)
(* block, the statement `b` lies outside the block, and every token in     *)
(* front of the switch's closing brace that was consumed is stored.        *)
(***************************************************************************)
IsSwitchProgram(cases, gap, nested, followed) ==
    p_tokens = SwitchProgram(cases, gap, nested, followed)

C25_SwitchConsumesItsOwnBrace ==
    p_state = "returned" =>
        \A cases \in SwitchCases : \A gap, followed \in BOOLEAN :
            IsSwitchProgram(cases, gap, TRUE, followed)
            => LET n == Len(p_tokens)
                   held == HeldBy(NodesOfStatements(ast))
               IN  /\ success = None
                   /\ Len(ast) = (IF followed THEN 3 ELSE 2)
                   /\ ast[1].statement.type = "Block"
                   /\ Len(ast[1].statement.statements) = 1
                   /\ ast[1].statement.statements[1].statement.type = "Switch"
                   /\ followed => ast[2] = StatementWrapper(
                                     [ type |-> "ExpresssionStatement",
                                       expression |-> IdentifierBox(n - 1) ], FALSE)
                   /\ ast[Len(ast)].statement.type = "EOF"
                   /\ \A i \in 1..(n - 1) :
                          p_tokens[i] \in { "Identifier", "Number", "Newline" }
                          => Count(held, i) = 1

(***************************************************************************)
(* C26: macro_statement ends the macro body at the first Newline that is   *)
(* not directly preceded by a Backslash, or at EOF, and leaves that        *)
(* Newline and the EOF unconsumed: a Newline is in the body only when the  *)
(* token right before it is a Backslash, so that of two Newlines in a row  *)
(* after a Backslash only the first belongs to the macro.                  *)
(***************************************************************************)
IsMacroRun ==
    /\ Len(p_tokens) >= 2
    /\ p_tokens[1] = "Macro"
    /\ \A i \in 2..(Len(p_tokens) - 1) : p_tokens[i] \in MacroAlphabet

EndsMacro(i) ==
    \/ p_tokens[i] = "EOF"
    \/ p_tokens[i] = "Newline" /\ p_tokens[i - 1] # "Backslash"

MacroEnd == CHOOSE e \in 2..Len(p_tokens) :
                EndsMacro(e) /\ \A i \in 2..(e - 1) : ~EndsMacro(i)

C26_MacroEndsAtFirstBareNewline ==
    (IsMacroRun /\ Len(ast) >= 1) =>
        /\ ast[1].statement = [ type |-> "Macro",
                                macro_body |-> [ i \in 1..(MacroEnd - 2) |-> i + 1 ] ]
        /\ (Len(ast) = 1 /\ p_state = "build_ast") => p_iter = MacroEnd

(***************************************************************************)
(* C27: every token lex_input emits records its true position: its         *)
(* line_number is the number of '\n' characters in front of the token's    *)
(* first character, and its column_number the number of characters, not    *)
(* counting carriage returns, between the start of that line and the       *)
(* token's first character, whatever stands in front of it on the line.    *)
(* The EOF sentinel, which has no first character, is left out.            *)
(***************************************************************************)
TrueLine(p) == Cardinality({ k \in 1..p : input[k] = "\n" })

LineStart(p) ==
    IF \E k \in 1..p : input[k] = "\n"
    THEN CHOOSE k \in 1..p : input[k] = "\n" /\ \A j \in (k + 1)..p : input[j] # "\n"
    ELSE 0

TrueColumn(p) == Cardinality({ k \in (LineStart(p) + 1)..p : input[k] # "\r" })

C27_TokensRecordTruePosition ==
    [][(Scanning /\ Len(tokens') = Len(tokens) + 1) =>
          /\ tokens'[Len(tokens')].line_number = TrueLine(iter)
          /\ tokens'[Len(tokens')].column_number = TrueColumn(iter)]_vars

(***************************************************************************)
(* C28: every String, Number and Comment token lex_input emits has a       *)
(* lexeme that is not empty and holds every character the scanner          *)
(* consumed for it, and the column advances by the number of characters    *)
(* consumed, at least one: also for `$` and `0x` with no hex digit, for    *)
(* `//` right before a newline or the end, and for a lone `"` at the end.  *)
(***************************************************************************)
C28_LexemeHoldsWhatWasConsumed ==
    [][(/\ Scanning
        /\ Len(tokens') = Len(tokens) + 1
        /\ tokens'[Len(tokens')].token_type \in { "String", "Number", "Comment" }) =>
          /\ tokens'[Len(tokens')].payload # <<>>
          /\ tokens'[Len(tokens')].payload = SubSeq(input, iter + 1, iter')
          /\ iter' - iter >= 1
          /\ column_number' - column_number = iter' - iter]_vars

(***************************************************************************)
(* C29: whenever build_ast returns with no diagnostic on a token sequence  *)
(* that ends in EOF, the last element of ast is Statement::EOF and it is   *)
(* the only EOF statement, and the EOF token has not been consumed by a    *)
(* rule: it is still the token peek() shows.                               *)
(***************************************************************************)
C29_EOFStatementLastAndOnly ==
    (/\ p_state = "returned"
     /\ success = None
     /\ p_tokens # <<>>
     /\ p_tokens[Len(p_tokens)] = "EOF") =>
        /\ ast # <<>>
        /\ \A k \in 1..Len(ast) : ast[k].statement.type = "EOF" <=> k = Len(ast)
        /\ p_iter = Len(p_tokens)

=============================================================================
